---------------------------- MODULE Spec2Model ----------------------------
(***************************************************************************)
(* Formula evaluation engine and legislation patching of openfisca-core.   *)
(*                                                                         *)
(*   reforms.py   updated_legislation_items: overlay of a new interval on  *)
(*                a timeline of (start, stop, value) items                 *)
(*   formulas.py  SimpleFormula, AlternativeFormula, DatedFormula,         *)
(*                SelectFormula: compute() with its tracking of requested  *)
(*                formulas by period                                       *)
(*                                                                         *)
(* Instants are (year, month, day) triples, as periods.Instant is; their   *)
(* string form is the ISO text 'YYYY-MM-DD', a sequence of character codes *)
(* compared as Python compares strings.                                    *)
(***************************************************************************)
EXTENDS Integers, Sequences, FiniteSets, TLC

\* Number of consecutive days the timelines of the patch model range over.
MaxDay == 5

\* Largest number of items of an input timeline.
MaxItems == 2

(***************************************************************************)
(* Time algebra (periods module)                                           *)
(***************************************************************************)

\* calendar.isleap
isleap(year) ==
    (year % 4 = 0 /\ year % 100 # 0) \/ year % 400 = 0

\* calendar.monthrange(year, month)[1]: the number of days of the month
monthrange(year, month) ==
    IF month = 2 THEN (IF isleap(year) THEN 29 ELSE 28)
    ELSE IF month \in {4, 6, 9, 11} THEN 30
    ELSE 31

\* Instants compare as tuples
InstantLT(a, b) ==
    \/ a[1] < b[1]
    \/ a[1] = b[1] /\ a[2] < b[2]
    \/ a[1] = b[1] /\ a[2] = b[2] /\ a[3] < b[3]

InstantLE(a, b) == a = b \/ InstantLT(a, b)

RECURSIVE OffsetDayBack(_, _, _)
\* Instant.offset, unit 'day', offset < 0: "while day < 1" loop
OffsetDayBack(year, month, day) ==
    IF day >= 1 THEN <<year, month, day>>
    ELSE LET m == IF month = 1 THEN 12 ELSE month - 1
             y == IF month = 1 THEN year - 1 ELSE year
         IN OffsetDayBack(y, m, day + monthrange(y, m))

RECURSIVE OffsetDayForth(_, _, _)
\* Instant.offset, unit 'day', offset > 0: "while day > month_last_day" loop
OffsetDayForth(year, month, day) ==
    IF day <= monthrange(year, month) THEN <<year, month, day>>
    ELSE LET m == IF month = 12 THEN 1 ELSE month + 1
             y == IF month = 12 THEN year + 1 ELSE year
         IN OffsetDayForth(y, m, day - monthrange(year, month))

RECURSIVE NormMonth(_, _)
\* Instant.offset, unit 'month': bring the month back into 1..12
NormMonth(year, month) ==
    IF month < 1 THEN NormMonth(year - 1, month + 12)
    ELSE IF month > 12 THEN NormMonth(year + 1, month - 12)
    ELSE <<year, month>>

\* Instant.offset(offset, unit)
offset(inst, delta, unit) ==
    IF unit = "day" THEN
        IF delta < 0 THEN OffsetDayBack(inst[1], inst[2], inst[3] + delta)
        ELSE OffsetDayForth(inst[1], inst[2], inst[3] + delta)
    ELSE IF unit = "month" THEN
        LET ym == NormMonth(inst[1], inst[2] + delta)
            last == monthrange(ym[1], ym[2])
        IN <<ym[1], ym[2], IF inst[3] > last THEN last ELSE inst[3]>>
    ELSE
        LET last == monthrange(inst[1] + delta, inst[2])
        IN <<inst[1] + delta, inst[2], IF inst[3] > last THEN last ELSE inst[3]>>

\* The character '-' sorts before every digit
Dash == -1

\* str(instant): 'YYYY-MM-DD'
str(inst) ==
    << (inst[1] \div 1000) % 10, (inst[1] \div 100) % 10, (inst[1] \div 10) % 10, inst[1] % 10,
       Dash, inst[2] \div 10, inst[2] % 10,
       Dash, inst[3] \div 10, inst[3] % 10 >>

\* periods.instant(text): the instant an ISO text denotes
instant(text) ==
    << text[1] * 1000 + text[2] * 100 + text[3] * 10 + text[4],
       text[6] * 10 + text[7],
       text[9] * 10 + text[10] >>

RECURSIVE StrLTFrom(_, _, _)
StrLTFrom(a, b, i) ==
    IF i > Len(a) THEN i <= Len(b)
    ELSE IF i > Len(b) THEN FALSE
    ELSE IF a[i] # b[i] THEN a[i] < b[i]
    ELSE StrLTFrom(a, b, i + 1)

\* Python's < on two strings
StrLT(a, b) == StrLTFrom(a, b, 1)

StrLE(a, b) == a = b \/ StrLT(a, b)

\* A period is (unit, start instant, size); "no period" and "no instant" are None in the code
NoInstant == <<0, 0, 0>>

NoPeriod == <<"none", NoInstant, 0>>

\* periods.base_instant(unit, instant)
base_instant(unit, inst) ==
    IF unit = "year" THEN <<inst[1], 1, 1>>
    ELSE IF unit = "month" THEN <<inst[1], inst[2], 1>>
    ELSE inst

\* periods.base(unit, instant): the period of size 1 of the unit that holds the instant
base(unit, inst) == <<unit, base_instant(unit, inst), 1>>

\* periods.stop_instant(period): the last instant of the period
stop_instant_of(period) ==
    LET unit == period[1]
        start == period[2]
        size == period[3]
    IN IF unit = "day" THEN OffsetDayForth(start[1], start[2], start[3] + size - 1)
       ELSE LET ym == IF unit = "month" THEN NormMonth(start[1], start[2] + size)
                      ELSE <<start[1] + size, start[2]>>
                day == start[3] - 1
            IN IF day < 1 THEN OffsetDayBack(ym[1], ym[2], day)
               ELSE OffsetDayForth(ym[1], ym[2], day)

RECURSIVE DaysFrom(_, _)
\* number of days from instant a to instant b, a <= b
DaysFrom(a, b) ==
    IF a = b THEN 0
    ELSE IF a[1] = b[1] /\ a[2] = b[2] THEN b[3] - a[3]
    ELSE (monthrange(a[1], a[2]) - a[3] + 1)
         + DaysFrom(IF a[2] = 12 THEN <<a[1] + 1, 1, 1>> ELSE <<a[1], a[2] + 1, 1>>, b)

\* periods.intersection(period, start, stop): the part of the period between the
\* two instants (None stands for no limit); NoPeriod when there is none
intersection(period, start, stop) ==
    IF period = NoPeriod THEN NoPeriod
    ELSE IF start = NoInstant /\ stop = NoInstant THEN period
    ELSE
        LET period_start == period[2]
            period_stop == stop_instant_of(period)
            lo == IF start = NoInstant THEN period_start ELSE start
            hi == IF stop = NoInstant THEN period_stop ELSE stop
        IN IF InstantLT(hi, period_start) \/ InstantLT(period_stop, lo) THEN NoPeriod
           ELSE
             LET istart == IF InstantLT(period_start, lo) THEN lo ELSE period_start
                 istop == IF InstantLT(hi, period_stop) THEN hi ELSE period_stop
             IN IF istart = period_start /\ istop = period_stop THEN period
                ELSE IF istart[3] = 1 /\ istart[2] = 1 /\ istop[3] = 31 /\ istop[2] = 12
                     THEN <<"year", istart, istop[1] - istart[1] + 1>>
                ELSE IF istart[3] = 1 /\ istop[3] = monthrange(istop[1], istop[2])
                     THEN <<"month", istart, (istop[1] - istart[1]) * 12 + istop[2] - istart[2] + 1>>
                ELSE <<"day", istart, DaysFrom(istart, istop) + 1>>

(***************************************************************************)
(* Timelines the patch is applied to                                       *)
(***************************************************************************)

\* First day of the window: it crosses the end of a month and of a year
WindowStart == <<2010, 12, 30>>

\* The k-th day of the window, k in 0 .. MaxDay - 1
DayAt(k) == offset(WindowStart, k, "day")

Days == 0 .. (MaxDay - 1)

Instants == {DayAt(k) : k \in Days}

Values == {10, 20}

Item(start, stop, value) == [start |-> start, stop |-> stop, value |-> value]

RECURSIVE TimelinesFrom(_, _)
\* Ordered, non-overlapping timelines of at most n items starting at day d or later
TimelinesFrom(d, n) ==
    IF n = 0 \/ d >= MaxDay THEN {<<>>}
    ELSE {<<>>} \cup
         UNION {
            { <<Item(str(DayAt(s)), str(DayAt(e)), v)>> \o rest : rest \in TimelinesFrom(e + 1, n - 1) }
            : <<s, e, v>> \in { t \in (d .. MaxDay - 1) \X (d .. MaxDay - 1) \X Values : t[1] <= t[2] } }

Timelines == TimelinesFrom(0, MaxItems)

\* A timeline of whole years: one item from 2010-01-01 to 2012-12-31
YearsTimeline == << Item(str(<<2010, 1, 1>>), str(<<2012, 12, 31>>), 10) >>


VARIABLES
    items,          \* the timeline given to updated_legislation_items
    start_instant,  \* first instant of the new interval
    stop_instant,   \* last instant of the new interval
    value,          \* value of the new interval
    new_items,      \* what updated_legislation_items returned for items
    again_items,    \* what it returned when given new_items with the same interval
    patch_pc        \* "off", "input", "patched" or "repatched"

patchVars == <<items, start_instant, stop_instant, value, new_items, again_items, patch_pc>>

VARIABLES
    variables_name,     \* per SimpleFormula: the names of its input variables (class attribute),
                        \* known to the model from the formula's first holder_by_variable_name on
    array_by_period,    \* per holder: the arrays it holds, by period
    used_formula,       \* per grouped formula: its used_formula attribute
    debug,              \* simulation.debug: "on" or "off", "unknown" to the model until a
                        \* function returns an array holding a NaN
    stack,              \* the compute() calls in progress, innermost last
    dicts,              \* the requested_formulas_by_period dicts alive: the caller's and the copies
    ret,                \* the dated holder the last finished call returned
    exc,                \* the exception being propagated, "" when none
    calls,              \* per SimpleFormula: how many times its function was called
    requests,           \* the top-level calls made so far, with their outcome
    lastExit            \* the last compute() call that ended, and how

engineVars == <<variables_name, array_by_period, used_formula, debug, stack, dicts, ret, exc, calls,
                requests, lastExit>>

VARIABLES
    heap,                   \* the objects of the legislation trees, by address: the object at
                            \* address n is heap[n]
    legislation_json,       \* update_legislation's argument: the address of the root of the tree
    path,                   \* its path argument
    start,                  \* its start and stop arguments
    stop,
    update_value,           \* its value argument
    updated_legislation,    \* what update_legislation returned: the address of the new root, 0 when
                            \* it raised
    update_error,           \* the exception update_legislation raised, "" when none
    heap_before,            \* the heap update_legislation was called with
    update_pc               \* "off", "input" or "updated"

updateVars == <<heap, legislation_json, path, start, stop, update_value, updated_legislation, update_error,
                heap_before, update_pc>>

VARIABLES
    formula_objects,    \* the formula objects alive, by address
    simulations         \* per simulation: the address of the formula of its holder

cloneVars == <<formula_objects, simulations>>

VARIABLES
    entity_index_array, \* per person: the index of the entity the person belongs to
    role_array,         \* per person: the role the person holds in that entity
    array_or_holder,    \* the array_or_holder argument of the call
    operation,          \* the method called, with its other arguments
    result,             \* what the call returned, or the exception it raised
    gathered            \* what filter_role returned when given the result of the cast

rolesVars == <<entity_index_array, role_array, array_or_holder, operation, result, gathered>>

VARIABLES
    find_items,         \* the items given to find_item_at_date
    date,               \* its date argument
    nearest_in_period,  \* its nearest_in_period argument, NoPeriod for None
    found_item               \* what it returned, or the exception it raised

findVars == <<find_items, date, nearest_in_period, found_item>>

\* The variables of the functions called on their own
libVars == <<updateVars, cloneVars, rolesVars, findVars>>

vars == <<patchVars, engineVars, libVars>>

(***************************************************************************)
(* reforms.updated_legislation_items                                       *)
(***************************************************************************)

\* The loop's accumulators: the list being built and the inserted flag
Acc(list, inserted) == [new_items |-> list, inserted |-> inserted]

\* The new item, as each branch writes it: str() of both instants
NewItem(new_item_start, new_item_stop, new_value) ==
    Item(str(new_item_start), str(new_item_stop), new_value)

InsertOnce_Always(acc, new_item_start, new_item_stop, new_value) ==
    Acc(Append(acc.new_items, NewItem(new_item_start, new_item_stop, new_value)), TRUE)

\* "if not inserted: new_items.append(new item); inserted = True"
InsertOnce(acc, new_item_start, new_item_stop, new_value) ==
    IF acc.inserted THEN acc
    ELSE Acc(Append(acc.new_items, NewItem(new_item_start, new_item_stop, new_value)), TRUE)

\* line 220: the item does not overlap the new interval
IsDisjoint(item_start, item_stop, new_item_start, new_item_stop) ==
    InstantLT(item_stop, new_item_start) \/ InstantLT(new_item_stop, item_start)

IsExact_Crossed(item_start, item_stop, new_item_start, new_item_stop) ==
    item_stop = new_item_start /\ item_start = new_item_stop

\* line 230: exact matching
IsExact(item_start, item_stop, new_item_start, new_item_stop) ==
    item_stop = new_item_stop /\ item_start = new_item_start

\* line 242: left edge overlapping
IsLeftEdge(item_start, item_stop, new_item_start, new_item_stop) ==
    InstantLT(item_start, new_item_start) /\ InstantLE(item_stop, new_item_stop)

\* line 261: new item contained in item
IsContained(item_start, item_stop, new_item_start, new_item_stop) ==
    InstantLT(item_start, new_item_start) /\ InstantLT(new_item_stop, item_stop)

\* line 287: the test of the branch commented "right edge overlapping"
IsRightEdge(item_start, item_stop, new_item_start, new_item_stop) ==
    InstantLE(new_item_start, item_start) /\ InstantLT(item_stop, new_item_stop)

\* lines 221-227: a copy of the item
KeepItem(acc, item) ==
    Acc(Append(acc.new_items, Item(item.start, item.stop, item.value)), acc.inserted)

LeftRemainder_NoOffset(item, new_item_start) ==
    Item(item.start, str(new_item_start), item.value)

\* lines 244-250 and 263-269: the part of the item left of the new interval
LeftRemainder(item, new_item_start) ==
    Item(item.start, str(offset(new_item_start, -1, "day")), item.value)

RightRemainder_NoOffset(item, new_item_stop) ==
    Item(str(new_item_stop), item.stop, item.value)

\* lines 280-286 and 299-305: the part of the item right of the new interval
RightRemainder(item, new_item_stop) ==
    Item(str(offset(new_item_stop, 1, "day")), item.stop, item.value)

\* lines 242-259
LeftEdgeBranch(acc, item, new_item_start, new_item_stop, new_value) ==
    IF IsLeftEdge(instant(item.start), instant(item.stop), new_item_start, new_item_stop)
    THEN InsertOnce(Acc(Append(acc.new_items, LeftRemainder(item, new_item_start)), acc.inserted),
                    new_item_start, new_item_stop, new_value)
    ELSE acc

\* lines 261-286
ContainedBranch(acc, item, new_item_start, new_item_stop, new_value) ==
    IF IsContained(instant(item.start), instant(item.stop), new_item_start, new_item_stop)
    THEN LET left == Acc(Append(acc.new_items, LeftRemainder(item, new_item_start)), acc.inserted)
             mid == InsertOnce(left, new_item_start, new_item_stop, new_value)
         IN Acc(Append(mid.new_items, RightRemainder(item, new_item_stop)), mid.inserted)
    ELSE acc

\* lines 287-305
RightEdgeBranch(acc, item, new_item_start, new_item_stop, new_value) ==
    IF IsRightEdge(instant(item.start), instant(item.stop), new_item_start, new_item_stop)
    THEN LET mid == InsertOnce(acc, new_item_start, new_item_stop, new_value)
         IN Acc(Append(mid.new_items, RightRemainder(item, new_item_stop)), mid.inserted)
    ELSE acc

\* lines 218-308: one iteration of "for item in items"
LoopBody(acc, item, new_item_start, new_item_stop, new_value) ==
    LET item_start == instant(item.start)
        item_stop == instant(item.stop)
    IN IF IsDisjoint(item_start, item_stop, new_item_start, new_item_stop)
       THEN KeepItem(acc, item)
       ELSE IF IsExact(item_start, item_stop, new_item_start, new_item_stop)
       THEN InsertOnce(acc, new_item_start, new_item_stop, new_value)
       ELSE \* the three following tests are made one after the other, none ends the iteration;
            \* the last test (line 306) only continues
            RightEdgeBranch(
                ContainedBranch(
                    LeftEdgeBranch(acc, item, new_item_start, new_item_stop, new_value),
                    item, new_item_start, new_item_stop, new_value),
                item, new_item_start, new_item_stop, new_value)

RECURSIVE Loop(_, _, _, _, _, _)
\* lines 216-308: the loop over items from index i on
Loop(acc, its, i, new_item_start, new_item_stop, new_value) ==
    IF i > Len(its) THEN acc
    ELSE Loop(LoopBody(acc, its[i], new_item_start, new_item_stop, new_value),
              its, i + 1, new_item_start, new_item_stop, new_value)

RECURSIVE InsertSorted(_, _)
\* place of an element in a list sorted by start, behind the elements whose key is not greater
InsertSorted(list, item) ==
    IF list = <<>> THEN <<item>>
    ELSE IF StrLT(item.start, list[Len(list)].start)
         THEN Append(InsertSorted(SubSeq(list, 1, Len(list) - 1), item), list[Len(list)])
         ELSE Append(list, item)

RECURSIVE SortFrom(_, _, _)
SortFrom(done, list, i) ==
    IF i > Len(list) THEN done
    ELSE SortFrom(InsertSorted(done, list[i]), list, i + 1)

\* sorted(new_items, key = lambda item: item['start']): a stable sort on the text of start
sorted(list) == SortFrom(<<>>, list, 1)

\* updated_legislation_items(items, start_instant, stop_instant, value)
updated_legislation_items(its, new_item_start, new_item_stop, new_value) ==
    sorted(Loop(Acc(<<>>, FALSE), its, 1, new_item_start, new_item_stop, new_value).new_items)

(***************************************************************************)
(* Patching a timeline, then patching the result with the same interval    *)
(***************************************************************************)

PatchInputs ==
    /\ \/ /\ items \in Timelines
          /\ start_instant \in Instants
          /\ stop_instant \in {i \in Instants : InstantLE(start_instant, i)}
       \/ /\ items = YearsTimeline
          /\ start_instant = <<2011, 1, 1>>
          /\ stop_instant = <<2011, 12, 31>>
    /\ value \in Values
    /\ new_items = <<>>
    /\ again_items = <<>>
    /\ patch_pc = "input"

Patch ==
    /\ patch_pc = "input"
    /\ new_items' = updated_legislation_items(items, start_instant, stop_instant, value)
    /\ patch_pc' = "patched"
    /\ UNCHANGED <<items, start_instant, stop_instant, value, again_items>>
    /\ UNCHANGED <<engineVars, libVars>>

PatchAgain ==
    /\ patch_pc = "patched"
    /\ again_items' = updated_legislation_items(new_items, start_instant, stop_instant, value)
    /\ patch_pc' = "repatched"
    /\ UNCHANGED <<items, start_instant, stop_instant, value, new_items>>
    /\ UNCHANGED <<engineVars, libVars>>

\* No patch is made in the evaluation model
PatchOff ==
    /\ items = <<>>
    /\ start_instant = WindowStart
    /\ stop_instant = WindowStart
    /\ value = 10
    /\ new_items = <<>>
    /\ again_items = <<>>
    /\ patch_pc = "off"

NextPatch == Patch \/ PatchAgain

(***************************************************************************)
(* reforms.update_legislation                                              *)
(*                                                                         *)
(* The legislation tree is made of objects with an identity: mappings,     *)
(* sequences, timeline items and numbers.  An object is known by its       *)
(* address in the heap; creating an object appends it to the heap.         *)
(***************************************************************************)

Object(kind, keys, refs, item) == [kind |-> kind, keys |-> keys, refs |-> refs, item |-> item]

NoItem == Item(<<>>, <<>>, 0)

Mapping(keys, refs) == Object("Mapping", keys, refs, NoItem)

Sequence(refs) == Object("Sequence", <<>>, refs, NoItem)

ItemObject(item) == Object("item", <<>>, <<>>, item)

Number == Object("number", <<>>, <<>>, NoItem)

\* An index of a sequence, as a path names it
IndexName(index) == <<"0", "1", "2", "3", "4", "5", "6", "7", "8", "9">>[index + 1]

\* The items of the timeline at address node
ItemsOf(h, node) == [i \in 1 .. Len(h[node].refs) |-> h[h[node].refs[i]].item]

\* A new list of new items is created: the OrderedDicts that
\* updated_legislation_items builds and the list sorted() returns
NewTimeline(h, its) ==
    LET n == Len(h)
        with_items == h \o [i \in 1 .. Len(its) |-> ItemObject(its[i])]
    IN [ heap |-> Append(with_items, Sequence([i \in 1 .. Len(its) |-> n + i])),
         node |-> n + Len(its) + 1, error |-> "" ]

\* The node is rebuilt in place: its children are replaced in the object given
BuildNode_InPlace(h, root_node, refs) ==
    [ heap |-> [h EXCEPT ![root_node].refs = refs], node |-> root_node, error |-> "" ]

\* The node is rebuilt with a copy of each of its children
BuildNode_Copying(h, root_node, refs) ==
    [ heap |-> Append(h \o [i \in DOMAIN refs |-> h[refs[i]]],
                      [h[root_node] EXCEPT !.refs = [i \in DOMAIN refs |-> Len(h) + i]]),
      node |-> Len(h) + Len(refs) + 1, error |-> "" ]

\* lines 173-176 and 178-190: the list, or the OrderedDict, that build_node
\* creates with the children it has built
BuildNode(h, root_node, refs) ==
    [ heap |-> Append(h, [h[root_node] EXCEPT !.refs = refs]), node |-> Len(h) + 1, error |-> "" ]

RECURSIVE build_node(_, _, _, _, _, _)
RECURSIVE build_children(_, _, _, _, _, _, _, _)

\* lines 171-192; path_index counts from 0.  The result holds the heap after the
\* call, the address of the node built and the exception raised
build_node(h, pth, new_start, new_stop, new_value, call) ==
    IF h[call.root_node].kind \notin {"Sequence", "Mapping"}
    THEN [heap |-> h, node |-> 0, error |-> "ValueError"]
    ELSE build_children(h, pth, new_start, new_stop, new_value, call, 1, <<>>)

\* The comprehension of build_node from child k on, refs being the children built so far
build_children(h, pth, new_start, new_stop, new_value, call, k, refs) ==
    LET obj == h[call.root_node]
        node == obj.refs[k]
        key == IF obj.kind = "Sequence" THEN IndexName(k - 1) ELSE obj.keys[k]
        last == obj.kind = "Mapping" /\ call.path_index = Len(pth) - 1
        built == IF last
                 THEN NewTimeline(h, updated_legislation_items(ItemsOf(h, node), new_start, new_stop, new_value))
                 ELSE build_node(h, pth, new_start, new_stop, new_value,
                                 [root_node |-> node, path_index |-> call.path_index + 1])
    IN IF k > Len(obj.refs) THEN BuildNode(h, call.root_node, refs)
       ELSE IF call.path_index >= Len(pth) THEN [heap |-> h, node |-> 0, error |-> "IndexError"]
       ELSE IF pth[call.path_index + 1] # key
       THEN build_children(h, pth, new_start, new_stop, new_value, call, k + 1, Append(refs, node))
       ELSE IF built.error # "" THEN built
       ELSE build_children(built.heap, pth, new_start, new_stop, new_value, call, k + 1,
                           Append(refs, built.node))

\* update_legislation(legislation_json, path, value = value, start = start, stop = stop)
update_legislation(h, root, pth, new_start, new_stop, new_value) ==
    build_node(h, pth, new_start, new_stop, new_value, [root_node |-> root, path_index |-> 0])

\* A legislation tree around the timeline its: a parameter p with the timeline
\* its under "values", and a scale q of two brackets with a rate timeline each
\*   {children: {p: {rank: 1, values: its}, q: {brackets: [{rate: [..]}, {rate: [..]}]}}}
LegislationHeap(its) ==
    << Mapping(<<"children">>, <<2>>),
       Mapping(<<"p", "q">>, <<3, 4>>),
       Mapping(<<"rank", "values">>, <<5, 6>>),
       Mapping(<<"brackets">>, <<7>>),
       Number,
       Sequence([i \in 1 .. Len(its) |-> 13 + i]),
       Sequence(<<8, 9>>),
       Mapping(<<"rate">>, <<10>>),
       Mapping(<<"rate">>, <<11>>),
       Sequence(<<12>>),
       Sequence(<<13>>),
       ItemObject(YearsTimeline[1]),
       ItemObject(Item(str(DayAt(0)), str(DayAt(MaxDay - 1)), 10)) >>
    \o [i \in 1 .. Len(its) |-> ItemObject(its[i])]

\* Paths to a timeline under a mapping, and to one under a sequence of brackets
TimelinePaths == { <<"children", "p", "values">>, <<"children", "q", "brackets", "1", "rate">> }

\* Paths that name no key of the tree, that lead to a number, and that end on an
\* index of a sequence
OtherPaths ==
    { <<"children", "z", "values">>, <<"children", "p", "rank", "x">>, <<"children", "q", "brackets", "0">> }

\* The timelines of the parameter p: those whose items all have the value 10
ParameterTimelines == {its \in Timelines : \A i \in DOMAIN its : its[i].value = 10}

UpdateInputs ==
    /\ \E its \in ParameterTimelines : heap = LegislationHeap(its)
    /\ legislation_json = 1
    /\ path \in TimelinePaths \cup OtherPaths
    /\ start \in Instants
    /\ stop \in {i \in Instants : InstantLE(start, i)}
    /\ update_value \in Values
    /\ updated_legislation = 0
    /\ update_error = ""
    /\ heap_before = heap
    /\ update_pc = "input"

\* No tree is updated in the other models
UpdateOff ==
    /\ heap = <<>>
    /\ legislation_json = 0
    /\ path = <<>>
    /\ start = WindowStart
    /\ stop = WindowStart
    /\ update_value = 10
    /\ updated_legislation = 0
    /\ update_error = ""
    /\ heap_before = <<>>
    /\ update_pc = "off"

\* updated_legislation = update_legislation(legislation_json, path, ...)
Update ==
    /\ update_pc = "input"
    /\ LET built == update_legislation(heap, legislation_json, path, start, stop, update_value)
       IN /\ heap' = built.heap
          /\ updated_legislation' = built.node
          /\ update_error' = built.error
    /\ heap_before' = heap
    /\ update_pc' = "updated"
    /\ UNCHANGED <<legislation_json, path, start, stop, update_value>>
    /\ UNCHANGED <<patchVars, engineVars, cloneVars, rolesVars, findVars>>

(***************************************************************************)
(* The formulas and holders of the evaluation model                        *)
(***************************************************************************)

\* Number of top-level compute() calls made on the simulation
MaxRequests == 2

\* entity.count: the size every array of the entity must have
EntityCount == 2

\* Number of compute() calls that may be in progress at once; the calls of the
\* model but those of fh never reach it
MaxDepth == 8

\* columns: x and y are input variables (no formula), a has a SimpleFormula, b an
\* AlternativeFormula, c a DatedFormula, d a SelectFormula; e, g and h have a
\* SimpleFormula whose class overrides get_output_period; i is period-invariant
\* and has a SimpleFormula
Variables == {"x", "y", "a", "b", "c", "d", "e", "g", "h", "i"}

SimpleFormulas == {"fa", "b1", "b2", "c1", "c2", "d1", "d2", "d3", "fe", "fg", "fh", "fi"}

GroupedFormulas == {"fb", "fc", "fd"}

NoFormula == ""

\* holder.formula
formula_of(v) ==
    CASE v = "a" -> "fa" [] v = "b" -> "fb" [] v = "c" -> "fc" [] v = "d" -> "fd"
      [] v = "e" -> "fe" [] v = "g" -> "fg" [] v = "h" -> "fh" [] v = "i" -> "fi"
      [] OTHER -> NoFormula

\* formula.holder: every sub-formula of a grouped formula is built with the same holder
holder_of(f) ==
    CASE f = "fa" -> "a"
      [] f \in {"fb", "b1", "b2"} -> "b"
      [] f \in {"fc", "c1", "c2"} -> "c"
      [] f = "fe" -> "e"
      [] f = "fg" -> "g"
      [] f = "fh" -> "h"
      [] f = "fi" -> "i"
      [] OTHER -> "d"

FormulaClass(f) ==
    CASE f = "fb" -> "AlternativeFormula"
      [] f = "fc" -> "DatedFormula"
      [] f = "fd" -> "SelectFormula"
      [] OTHER -> "SimpleFormula"

\* AlternativeFormula.alternative_formulas, by descending preference
alternative_formulas(f) == <<"b1", "b2">>

\* DatedFormula.dated_formulas, sorted by start instant
dated_formulas(f) ==
    << [formula |-> "c1", start_instant |-> <<2015, 1, 1>>, stop_instant |-> <<2016, 12, 31>>],
       [formula |-> "c2", start_instant |-> <<2017, 1, 1>>, stop_instant |-> <<2018, 12, 31>>] >>

\* SelectFormula.formula_by_main_variable, an ordered mapping
formula_by_main_variable(f) == << <<"x", "d1">>, <<"y", "d2">>, <<"e", "d3">> >>

\* formula.period_unit
period_unit(f) == "year"

\* column.is_period_invariant
is_period_invariant(v) == v = "i"

\* column.start and column.end: no column of the model limits its validity
column_start(v) == NoInstant

column_end(v) == NoInstant

\* column.dtype and column.default
column_dtype(v) == "float32"

column_default(v) == 0

\* SimpleFormula.get_output_period: the class default for formulas made by the
\* FormulaColumn classes (fa, c1, c2), the year starting at the beginning of the
\* month for those made by the build_*_formula_couple functions.  The classes
\* of fe, fg and fh override it (lines 879, 958-959): fe returns the requested
\* period as it is, fg the year before the requested period, fh the twelve
\* months that end with the month the requested period starts in
get_output_period(f, period) ==
    IF f \in {"fa", "c1", "c2", "fi"} THEN base(period_unit(f), period[2])
    ELSE IF f = "fe" THEN period
    ELSE IF f = "fg" THEN base(period_unit(f), <<period[2][1] - 1, period[2][2], period[2][3]>>)
    ELSE IF f = "fh" THEN <<"year", offset(base_instant("month", period[2]), -11, "month"), 1>>
    ELSE <<"year", base_instant("month", period[2]), 1>>

\* SimpleFormula.get_variable_period
get_variable_period(f, output_period, variable_name) == output_period

\* The periods of the top-level calls on a formula: the year 2015, a month of
\* it, and for the dated formula two years that meet both of its dated formulas
\* and a year before and a year after all of them
RequestPeriods(f) ==
    IF f = "fc"
    THEN { <<"year", <<2015, 1, 1>>, 1>>, <<"year", <<2016, 1, 1>>, 2>>, <<"year", <<2020, 1, 1>>, 1>>,
           <<"year", <<2010, 1, 1>>, 1>> }
    ELSE { <<"year", <<2015, 1, 1>>, 1>>, <<"month", <<2015, 2, 1>>, 1>> }

\* The names a formula's function may take as input variables
VariablesNameChoices(f) ==
    CASE f = "fa" -> {<<>>, <<"x">>, <<"a">>, <<"x", "b">>}
      [] f = "b1" -> {<<"x">>, <<"b">>, <<"g">>}
      [] f = "b2" -> {<<>>, <<"x">>}
      [] f = "c1" -> {<<>>, <<"x">>, <<"c">>, <<"c", "x">>}
      [] f = "c2" -> {<<>>}
      [] f = "d1" -> {<<>>, <<"d">>}
      [] f \in {"fe", "fg"} -> {<<>>}
      [] f = "fh" -> {<<"h">>}
      [] f = "fi" -> {<<>>, <<"i">>}
      [] OTHER -> {<<>>, <<"x">>}

\* variables_name the model has not looked at yet
Unknown == <<"?">>

(***************************************************************************)
(* Arrays, holders and dated holders                                       *)
(***************************************************************************)

\* numpy.nan
NaN == -1

Array(dtype, data) == [dtype |-> dtype, data |-> data]

\* What array is when it is None
NoArray == Array("None", <<>>)

Filled(n, x) == [i \in 1 .. n |-> x]

\* Every column is taken for one that varies with the period
PeriodKey_Period(v, period) == period

\* The period a holder files an array under, and the key of the requested formulas
PeriodKey(v, period) == IF is_period_invariant(v) THEN NoPeriod ELSE period

\* holder.at_period(period): a dated holder, the holder's entry for the period
at_period(v, period) == [holder |-> v, period |-> PeriodKey(v, period)]

NoDatedHolder == [holder |-> "", period |-> NoPeriod]

EmptyHolder == [k \in {} |-> NoArray]

\* dated_holder.array is not None
HasArray(arrays, dh) == dh.holder \in DOMAIN arrays /\ dh.period \in DOMAIN arrays[dh.holder]

\* dated_holder.array
ArrayOf(arrays, dh) == IF HasArray(arrays, dh) THEN arrays[dh.holder][dh.period] ELSE NoArray

\* dated_holder.array = array
SetArray(arrays, dh, array) ==
    [arrays EXCEPT ![dh.holder] = (dh.period :> array) @@ @]

astype_Kept(array, dtype) == array

\* array.astype(column.dtype) when the dtypes differ
astype(array, dtype) == IF array.dtype # dtype THEN Array(dtype, array.data) ELSE array

\* np.isnan(np.min(array))
HasNaN(array) == \E i \in DOMAIN array.data : array.data[i] = NaN

\* What a formula's function may do when called
Outcomes == {"array", "other_dtype", "None", "raise", "scalar", "wrong_size", "nan"}

\* The value a function returns, for the outcomes that return one
Returned(v, outcome) ==
    CASE outcome = "array" -> Array(column_dtype(v), Filled(EntityCount, 1))
      [] outcome = "other_dtype" -> Array("int64", Filled(EntityCount, 1))
      [] outcome = "wrong_size" -> Array(column_dtype(v), Filled(EntityCount + 1, 1))
      [] outcome = "nan" -> Array(column_dtype(v), [i \in 1 .. EntityCount |-> IF i = 1 THEN NaN ELSE 1])
      [] OTHER -> NoArray

(***************************************************************************)
(* The calls in progress                                                   *)
(***************************************************************************)

Frame(f, lazy, period, rfbp) ==
    [ formula |-> f, lazy |-> lazy, period |-> period,
      rfbp |-> rfbp,                    \* which dict is its requested_formulas_by_period
      pc |-> "enter", index |-> 1,
      output_period |-> NoPeriod, dated_holder |-> NoDatedHolder,
      added |-> FALSE ]                 \* whether the call added the formula to the set

Top == stack[Len(stack)]

Pop == SubSeq(stack, 1, Len(stack) - 1)

SetTop(frame) == [stack EXCEPT ![Len(stack)] = frame]

EmptyDict == [k \in {} |-> {}]

\* period_or_none of the call
KeyOf(frame) == PeriodKey(holder_of(frame.formula), frame.period)

\* self in period_requested_formulas
Requested(d, key, f) == key \in DOMAIN d /\ f \in d[key]

\* requested_formulas_by_period.get(period_or_none), created empty when missing
WithKey(d, key) == IF key \in DOMAIN d THEN d ELSE (key :> {}) @@ d

\* The cycle check with every call taken for a lazy one
CycleCheck_AlwaysLazy(d, key, f, lazy) ==
    IF key \in DOMAIN d /\ f \in d[key] THEN "return" ELSE "proceed"

\* The cycle check with no call taken for a lazy one
CycleCheck_NeverLazy(d, key, f, lazy) ==
    IF key \in DOMAIN d /\ f \in d[key] THEN "fail" ELSE "proceed"

\* What the first lines of compute() decide: "return" the holder's entry, "fail"
\* with the infinite loop error, or "proceed"
CycleCheck(d, key, f, lazy) ==
    IF key \notin DOMAIN d THEN "proceed"
    ELSE IF lazy THEN (IF f \in d[key] THEN "return" ELSE "proceed")
    ELSE IF f \in d[key] THEN "fail" ELSE "proceed"

\* The formula is not added to the set
AddRequested_Skipped(ds, frame) == ds

\* period_requested_formulas.add(self)
AddRequested(ds, frame) ==
    [ds EXCEPT ![frame.rfbp] = [WithKey(@, KeyOf(frame)) EXCEPT ![KeyOf(frame)] = @ \cup {frame.formula}]]

RemoveRequested_Kept(ds, frame) == ds

\* period_requested_formulas.remove(self)
RemoveRequested(ds, frame) ==
    [ds EXCEPT ![frame.rfbp] = [@ EXCEPT ![KeyOf(frame)] = @ \ {frame.formula}]]

ExitRecord(frame, ds, how) ==
    [ formula |-> frame.formula, key |-> KeyOf(frame), lazy |-> frame.lazy, added |-> frame.added,
      requested |-> Requested(ds[frame.rfbp], KeyOf(frame), frame.formula),
      how |-> how ]

NoExit == [formula |-> NoFormula, key |-> NoPeriod, lazy |-> FALSE, added |-> FALSE, requested |-> FALSE,
           how |-> "none"]

\* The outcome of the top-level call, written when its frame ends
Finish(status, error, dh, how) ==
    [requests EXCEPT ![Len(requests)] =
        [@ EXCEPT !.status = status, !.error = error, !.result = dh,
                  !.array = ArrayOf(array_by_period', dh), !.calls_end = calls',
                  !.how = how,
                  !.used_formula = IF requests[Len(requests)].formula \in GroupedFormulas
                                   THEN used_formula'[requests[Len(requests)].formula]
                                   ELSE NoFormula]]

\* The call on top returns dh; ds is the state of the dicts at that point
Return(dh, ds, how) ==
    /\ stack' = Pop
    /\ ret' = dh
    /\ dicts' = ds
    /\ exc' = exc
    /\ lastExit' = ExitRecord(Top, ds, how)
    /\ requests' = IF Len(stack) = 1 THEN Finish("returned", "", dh, how) ELSE requests

\* The call on top raises
Raise(error, ds) ==
    /\ stack' = Pop
    /\ ret' = ret
    /\ dicts' = ds
    /\ exc' = IF Len(stack) = 1 THEN "" ELSE error
    /\ lastExit' = ExitRecord(Top, ds, "raise")
    /\ requests' = IF Len(stack) = 1 THEN Finish("failed", error, NoDatedHolder, "raise") ELSE requests

\* The call on top goes on with a new frame
Continue(frame, ds) ==
    /\ stack' = SetTop(frame)
    /\ dicts' = ds
    /\ UNCHANGED <<ret, exc, lastExit, requests>>

\* The call on top calls compute() of formula f
Call(frame, f, lazy, period, rfbp, ds) ==
    /\ Len(stack) < MaxDepth
    /\ stack' = Append(SetTop(frame), Frame(f, lazy, period, rfbp))
    /\ dicts' = ds
    /\ UNCHANGED <<ret, exc, lastExit, requests>>

\* holder.compute answers without calling a formula: an input variable, or an
\* array already held for the period
HolderAnswers(v, period) ==
    formula_of(v) = NoFormula \/ HasArray(array_by_period, at_period(v, period))

\* The call on top calls holder.compute (simulation.compute) of variable v
CallHolder(frame, v, lazy, period, ds) ==
    IF HolderAnswers(v, period)
    THEN /\ stack' = SetTop(frame)
         /\ ret' = at_period(v, period)
         /\ dicts' = ds
         /\ UNCHANGED <<exc, lastExit, requests>>
    ELSE Call(frame, formula_of(v), lazy, period, frame.rfbp, ds)

Running(class, pc) ==
    /\ stack # <<>>
    /\ exc = ""
    /\ FormulaClass(Top.formula) = class
    /\ Top.pc = pc

(***************************************************************************)
(* Top-level calls and exceptions                                          *)
(***************************************************************************)

EngineOff ==
    /\ variables_name = [f \in SimpleFormulas |-> Unknown]
    /\ array_by_period = [v \in Variables |-> EmptyHolder]
    /\ used_formula = [f \in GroupedFormulas |-> NoFormula]
    /\ debug = "unknown"
    /\ stack = <<>>
    /\ dicts = <<>>
    /\ ret = NoDatedHolder
    /\ exc = ""
    /\ calls = [f \in SimpleFormulas |-> 0]
    /\ requests = <<>>
    /\ lastExit = NoExit

\* The arrays an input variable may hold: one for the year 2015, or none
InputArrays == {EmptyHolder, (<<"year", <<2015, 1, 1>>, 1>> :> Array("float32", Filled(EntityCount, 1)))}

\* Each of the input variables x and y has an array for the year 2015, or none
InitEngine ==
    /\ variables_name = [f \in SimpleFormulas |-> Unknown]
    /\ \E xs \in InputArrays, ys \in InputArrays :
          array_by_period = [v \in Variables |-> IF v = "x" THEN xs ELSE IF v = "y" THEN ys ELSE EmptyHolder]
    /\ used_formula = [f \in GroupedFormulas |-> NoFormula]
    /\ debug = "unknown"
    /\ stack = <<>>
    /\ dicts = <<>>
    /\ ret = NoDatedHolder
    /\ exc = ""
    /\ calls = [f \in SimpleFormulas |-> 0]
    /\ requests = <<>>
    /\ lastExit = NoExit

\* The dict of the call before is used again
Request_SharedDict(f, period, lazy) ==
    /\ stack = <<>>
    /\ Len(requests) < MaxRequests
    /\ requests # <<>> => f = requests[1].formula /\ period = requests[1].period
    /\ stack' = <<Frame(f, lazy, period, 1)>>
    /\ dicts' = IF dicts = <<>> THEN <<EmptyDict>> ELSE <<dicts[1]>>
    /\ requests' = Append(requests,
          [ formula |-> f, period |-> period, lazy |-> lazy, status |-> "running", error |-> "",
            result |-> NoDatedHolder, array |-> NoArray, calls_start |-> calls, calls_end |-> calls,
            how |-> "none", used_formula |-> NoFormula ])
    /\ UNCHANGED <<variables_name, array_by_period, used_formula, debug, ret, exc, calls, lastExit>>
    /\ UNCHANGED <<patchVars, libVars>>

\* formula.compute(lazy = lazy, period = period), requested_formulas_by_period
\* being None: the call starts with a new empty dict
Request(f, period, lazy) ==
    /\ stack = <<>>
    /\ Len(requests) < MaxRequests
    /\ requests # <<>> => f = requests[1].formula /\ period = requests[1].period
    /\ stack' = <<Frame(f, lazy, period, 1)>>
    /\ dicts' = <<EmptyDict>>
    /\ requests' = Append(requests,
          [ formula |-> f, period |-> period, lazy |-> lazy, status |-> "running", error |-> "",
            result |-> NoDatedHolder, array |-> NoArray, calls_start |-> calls, calls_end |-> calls,
            how |-> "none", used_formula |-> NoFormula ])
    /\ UNCHANGED <<variables_name, array_by_period, used_formula, debug, ret, exc, calls, lastExit>>
    /\ UNCHANGED <<patchVars, libVars>>

\* An AlternativeFormula takes the exception of an alternative for no array
Unwind_Absorbed ==
    /\ stack # <<>>
    /\ exc # ""
    /\ UNCHANGED <<variables_name, array_by_period, used_formula, debug, calls>>
    /\ IF Top.pc = "alternative_returned"
       THEN /\ stack' = SetTop([Top EXCEPT !.pc = "alternatives", !.index = @ + 1])
            /\ dicts' = SubSeq(dicts, 1, Len(dicts) - 1)
            /\ exc' = ""
            /\ UNCHANGED <<ret, lastExit, requests>>
       ELSE Raise(exc, dicts)
    /\ UNCHANGED <<patchVars, libVars>>

\* An exception leaves a call that does not catch it; no call does
Unwind ==
    /\ stack # <<>>
    /\ exc # ""
    /\ UNCHANGED <<variables_name, array_by_period, used_formula, debug, calls>>
    /\ Raise(exc, dicts)
    /\ UNCHANGED <<patchVars, libVars>>

(***************************************************************************)
(* SimpleFormula.compute                                                   *)
(***************************************************************************)

\* The array already held is taken for absent
AlreadyComputed_Never(arrays, dated_holder) == FALSE

\* lines 522-523: dated_holder.array is not None, the formula has nothing to compute
AlreadyComputed(arrays, dated_holder) == HasArray(arrays, dated_holder)

\* Only the unit of the output period is checked
OutputPeriodError_UnitOnly(f, period, output_period) ==
    IF output_period[1] # period_unit(f) THEN "period_unit" ELSE ""

\* lines 515-520: the exception the two assertions on the output period raise,
\* "" when none
OutputPeriodError(f, period, output_period) ==
    IF output_period[1] # period_unit(f) THEN "period_unit"
    ELSE IF ~(InstantLE(output_period[2], period[2])
              /\ InstantLE(period[2], stop_instant_of(output_period)))
    THEN "output_period"
    ELSE ""

\* lines 489-526: the cycle check, the output period, the array already held
SimpleEnter ==
    /\ Running("SimpleFormula", "enter")
    /\ LET fr == Top
           f == fr.formula
           v == holder_of(f)
           key == KeyOf(fr)
           check == CycleCheck(dicts[fr.rfbp], key, f, fr.lazy)
           ds == [dicts EXCEPT ![fr.rfbp] = WithKey(@, key)]
           output_period0 == get_output_period(f, fr.period)
           output_period == intersection(output_period0, column_start(v), column_end(v))
           dated_holder == at_period(v, output_period)
       IN /\ UNCHANGED <<array_by_period, used_formula, debug, calls>>
          /\ IF check = "return"
             THEN UNCHANGED variables_name /\ Return(at_period(v, fr.period), ds, "lazy_cycle")
             ELSE IF check = "fail"
             THEN UNCHANGED variables_name /\ Raise("cycle", ds)
             ELSE IF OutputPeriodError(f, fr.period, output_period0) # ""
             THEN UNCHANGED variables_name /\ Raise(OutputPeriodError(f, fr.period, output_period0), ds)
             ELSE IF AlreadyComputed(array_by_period, dated_holder)
             THEN UNCHANGED variables_name /\ Return(dated_holder, ds, "held")
             ELSE LET next == [fr EXCEPT !.pc = "variables", !.index = 1, !.added = TRUE,
                                         !.output_period = output_period,
                                         !.dated_holder = dated_holder]
                  IN /\ \E names \in (IF variables_name[f] = Unknown THEN VariablesNameChoices(f)
                                      ELSE {variables_name[f]}) :
                            variables_name' = [variables_name EXCEPT ![f] = names]
                     /\ Continue(next, AddRequested(ds, fr))
    /\ UNCHANGED <<patchVars, libVars>>

\* lines 534-537: the next input variable is computed
SimpleVariable ==
    /\ Running("SimpleFormula", "variables")
    /\ Top.index <= Len(variables_name[Top.formula])
    /\ LET fr == Top
           variable_name == variables_name[fr.formula][fr.index]
           variable_period == get_variable_period(fr.formula, fr.output_period, variable_name)
       IN CallHolder([fr EXCEPT !.pc = "variable_returned"], variable_name, fr.lazy, variable_period, dicts)
    /\ UNCHANGED <<variables_name, array_by_period, used_formula, debug, calls>>
    /\ UNCHANGED <<patchVars, libVars>>

\* lines 538-552: the input variable has been computed
SimpleVariableReturned ==
    /\ Running("SimpleFormula", "variable_returned")
    /\ UNCHANGED <<variables_name, array_by_period, used_formula, debug, calls>>
    /\ LET fr == Top
       IN IF ~HasArray(array_by_period, ret)
          THEN IF fr.lazy
               THEN Return(at_period(holder_of(fr.formula), fr.output_period),
                           RemoveRequested(dicts, fr), "absent")
               ELSE Raise("variable_is_None", dicts)
          ELSE Continue([fr EXCEPT !.pc = "variables", !.index = @ + 1], dicts)
    /\ UNCHANGED <<patchVars, libVars>>

\* The array is taken as it is
ArrayError_Unchecked(array, dbg) == ""

\* lines 591-602: the exception the array returned by the function raises, "" when none
ArrayError(array, dbg) ==
    IF Len(array.data) # EntityCount THEN "size"
    ELSE IF dbg = "off" /\ HasNaN(array) THEN "NaNCreationError"
    ELSE ""

\* lines 554-618: the function is called, its result checked and stored.  The
\* legislation arguments take no part in the control flow; a failure to get them
\* is among the exceptions the call may raise
SimpleFunction ==
    /\ Running("SimpleFormula", "variables")
    /\ Top.index > Len(variables_name[Top.formula])
    /\ UNCHANGED <<variables_name, used_formula>>
    /\ LET fr == Top
           f == fr.formula
           v == holder_of(f)
           dated_holder == fr.dated_holder
       IN \E outcome \in Outcomes :
            /\ debug' \in (IF outcome = "nan" /\ debug = "unknown" THEN {"on", "off"} ELSE {debug})
            /\ calls' = [calls EXCEPT ![f] = @ + 1]
            /\ LET array == Returned(v, outcome)
               IN CASE outcome = "raise" ->
                         /\ UNCHANGED array_by_period
                         /\ Raise("function", dicts)
                    [] outcome = "None" ->
                         /\ UNCHANGED array_by_period
                         /\ Return(dated_holder, RemoveRequested(dicts, fr), "return")
                    [] outcome = "scalar" ->
                         /\ UNCHANGED array_by_period
                         /\ Raise("not_an_array", dicts)
                    [] OTHER ->
                         IF ArrayError(array, debug') # ""
                         THEN UNCHANGED array_by_period /\ Raise(ArrayError(array, debug'), dicts)
                         ELSE /\ array_by_period' = SetArray(array_by_period, dated_holder,
                                                             astype(array, column_dtype(v)))
                              /\ Return(dated_holder, RemoveRequested(dicts, fr), "return")
    /\ UNCHANGED <<patchVars, libVars>>

(***************************************************************************)
(* AlternativeFormula.compute                                              *)
(***************************************************************************)

\* lines 125-148 (and 228-252, 329-354): the cycle check of a grouped formula,
\* then the formula is added to the requested formulas
GroupedEnter(class, pc) ==
    /\ Running(class, "enter")
    /\ UNCHANGED <<variables_name, array_by_period, used_formula, debug, calls>>
    /\ LET fr == Top
           f == fr.formula
           key == KeyOf(fr)
           check == CycleCheck(dicts[fr.rfbp], key, f, fr.lazy)
           ds == [dicts EXCEPT ![fr.rfbp] = WithKey(@, key)]
       IN IF check = "return"
          THEN Return(at_period(holder_of(f), fr.period), ds, "lazy_cycle")
          ELSE IF check = "fail"
          THEN Raise("cycle", ds)
          ELSE Continue([fr EXCEPT !.pc = pc, !.index = 1, !.added = TRUE], AddRequested(ds, fr))
    /\ UNCHANGED <<patchVars, libVars>>

AlternativeEnter == GroupedEnter("AlternativeFormula", "alternatives")

\* The alternatives are gone through from the least preferred one
alternative_formula_Reversed(f, index) ==
    alternative_formulas(f)[Len(alternative_formulas(f)) + 1 - index]

\* line 149: "for alternative_formula in self.alternative_formulas", at its index-th turn
alternative_formula(f, index) == alternative_formulas(f)[index]

\* lines 149-156: the next alternative is tried, lazily, with a copy of the dict
AlternativeProbe ==
    /\ Running("AlternativeFormula", "alternatives")
    /\ Top.index <= Len(alternative_formulas(Top.formula))
    /\ UNCHANGED <<variables_name, array_by_period, used_formula, debug, calls>>
    /\ LET fr == Top
           new_requested_formulas_by_period == dicts[fr.rfbp]
       IN Call([fr EXCEPT !.pc = "alternative_returned"],
               alternative_formula(fr.formula, fr.index), TRUE, fr.period,
               Len(dicts) + 1, Append(dicts, new_requested_formulas_by_period))
    /\ UNCHANGED <<patchVars, libVars>>

\* lines 157-160: the alternative has returned; the copy of the dict is dropped
AlternativeReturned ==
    /\ Running("AlternativeFormula", "alternative_returned")
    /\ UNCHANGED <<variables_name, array_by_period, debug, calls>>
    /\ LET fr == Top
           ds == SubSeq(dicts, 1, Len(dicts) - 1)
       IN IF HasArray(array_by_period, ret)
          THEN /\ used_formula' = [used_formula EXCEPT ![fr.formula] = alternative_formula(fr.formula, fr.index)]
               /\ Return(ret, RemoveRequested(ds, fr), "probed")
          ELSE /\ UNCHANGED used_formula
               /\ Continue([fr EXCEPT !.pc = "alternatives", !.index = @ + 1], ds)
    /\ UNCHANGED <<patchVars, libVars>>

\* The last resort is the least preferred alternative
first_alternative_Last(f) == alternative_formulas(f)[Len(alternative_formulas(f))]

\* line 166: "alternative_formula = self.alternative_formulas[0]"
first_alternative(f) == alternative_formulas(f)[1]

\* lines 161-169: no alternative has an array
AlternativeLast ==
    /\ Running("AlternativeFormula", "alternatives")
    /\ Top.index > Len(alternative_formulas(Top.formula))
    /\ UNCHANGED <<variables_name, array_by_period, debug, calls>>
    /\ LET fr == Top
       IN IF fr.lazy
          THEN /\ UNCHANGED used_formula
               /\ Return(ret, RemoveRequested(dicts, fr), "absent")
          ELSE /\ used_formula' = [used_formula EXCEPT ![fr.formula] = first_alternative(fr.formula)]
               /\ Call([fr EXCEPT !.pc = "last_returned"], first_alternative(fr.formula),
                       fr.lazy, fr.period, fr.rfbp, dicts)
    /\ UNCHANGED <<patchVars, libVars>>

\* lines 170-171
AlternativeLastReturned ==
    /\ Running("AlternativeFormula", "last_returned")
    /\ UNCHANGED <<variables_name, array_by_period, used_formula, debug, calls>>
    /\ Return(ret, RemoveRequested(dicts, Top), "return")
    /\ UNCHANGED <<patchVars, libVars>>

(***************************************************************************)
(* DatedFormula.compute                                                    *)
(***************************************************************************)

DatedEnter == GroupedEnter("DatedFormula", "dated_formulas")

\* The array filled with the default value is not stored
DatedDefault_NotStored(fr, dh) ==
    /\ UNCHANGED <<array_by_period, used_formula>>
    /\ Return(IF dh = NoDatedHolder THEN at_period(holder_of(fr.formula), fr.period) ELSE dh,
              RemoveRequested(dicts, fr), "default")

\* lines 269-275: an array filled with the default value is stored in the dated
\* holder at hand, or in the holder's entry for the period when there is none
DatedDefault(fr, dh) ==
    LET v == holder_of(fr.formula)
        dated_holder == IF dh = NoDatedHolder THEN at_period(v, fr.period) ELSE dh
    IN /\ array_by_period' = SetArray(array_by_period, dated_holder,
                                      Array(column_dtype(v), Filled(EntityCount, column_default(v))))
       /\ UNCHANGED used_formula
       /\ Return(dated_holder, RemoveRequested(dicts, fr), "default")

\* The dated formula that meets the period is computed for the whole period
DatedNext_WholePeriod ==
    /\ Running("DatedFormula", "dated_formulas")
    /\ UNCHANGED <<variables_name, debug, calls>>
    /\ LET fr == Top
           list == dated_formulas(fr.formula)
       IN IF fr.index > Len(list)
             \/ InstantLT(stop_instant_of(fr.period), list[fr.index].start_instant)
          THEN DatedDefault(fr, fr.dated_holder)
          ELSE LET output_period == intersection(fr.period, list[fr.index].start_instant,
                                                 list[fr.index].stop_instant)
               IN /\ UNCHANGED <<array_by_period, used_formula>>
                  /\ IF output_period = NoPeriod
                     THEN Continue([fr EXCEPT !.index = @ + 1], dicts)
                     ELSE Call([fr EXCEPT !.pc = "dated_returned", !.output_period = fr.period],
                               list[fr.index].formula, fr.lazy, fr.period, fr.rfbp, dicts)
    /\ UNCHANGED <<patchVars, libVars>>

\* lines 255-262: the next dated formula, when it starts before the period stops
\* and meets the period, is computed for the intersection
DatedNext ==
    /\ Running("DatedFormula", "dated_formulas")
    /\ UNCHANGED <<variables_name, debug, calls>>
    /\ LET fr == Top
           list == dated_formulas(fr.formula)
       IN IF fr.index > Len(list)
             \/ InstantLT(stop_instant_of(fr.period), list[fr.index].start_instant)
          THEN DatedDefault(fr, fr.dated_holder)
          ELSE LET output_period == intersection(fr.period, list[fr.index].start_instant,
                                                 list[fr.index].stop_instant)
               IN /\ UNCHANGED <<array_by_period, used_formula>>
                  /\ IF output_period = NoPeriod
                     THEN Continue([fr EXCEPT !.index = @ + 1], dicts)
                     ELSE Call([fr EXCEPT !.pc = "dated_returned", !.output_period = output_period],
                               list[fr.index].formula, fr.lazy, output_period, fr.rfbp, dicts)
    /\ UNCHANGED <<patchVars, libVars>>

\* lines 263-267, then 269-275 after the break
DatedReturned ==
    /\ Running("DatedFormula", "dated_returned")
    /\ UNCHANGED <<variables_name, debug, calls>>
    /\ LET fr == Top
       IN IF ~HasArray(array_by_period, ret)
          THEN DatedDefault(fr, ret)
          ELSE /\ UNCHANGED array_by_period
               /\ used_formula' = [used_formula EXCEPT ![fr.formula] = dated_formulas(fr.formula)[fr.index].formula]
               /\ Return(ret, RemoveRequested(dicts, fr), "return")
    /\ UNCHANGED <<patchVars, libVars>>

(***************************************************************************)
(* SelectFormula.compute                                                   *)
(***************************************************************************)

SelectEnter == GroupedEnter("SelectFormula", "main_variables")

\* lines 363-365: the selected formula is computed
SelectCall(fr, selected_formula) ==
    /\ used_formula' = [used_formula EXCEPT ![fr.formula] = selected_formula]
    /\ Call([fr EXCEPT !.pc = "selected_returned"], selected_formula, fr.lazy, fr.period, fr.rfbp, dicts)

\* lines 355-357: the next main variable is computed, lazily
SelectMainVariable ==
    /\ Running("SelectFormula", "main_variables")
    /\ Top.index <= Len(formula_by_main_variable(Top.formula))
    /\ UNCHANGED <<variables_name, array_by_period, used_formula, debug, calls>>
    /\ LET fr == Top
       IN CallHolder([fr EXCEPT !.pc = "main_variable_returned"],
                     formula_by_main_variable(fr.formula)[fr.index][1], TRUE, fr.period, dicts)
    /\ UNCHANGED <<patchVars, libVars>>

\* lines 358-360, then 363-365 after the break
SelectMainVariableReturned ==
    /\ Running("SelectFormula", "main_variable_returned")
    /\ UNCHANGED <<variables_name, array_by_period, debug, calls>>
    /\ LET fr == Top
       IN IF HasArray(array_by_period, ret)
          THEN SelectCall(fr, formula_by_main_variable(fr.formula)[fr.index][2])
          ELSE /\ UNCHANGED used_formula
               /\ Continue([fr EXCEPT !.pc = "main_variables", !.index = @ + 1], dicts)
    /\ UNCHANGED <<patchVars, libVars>>

\* No main variable has an array, the last formula is selected
SelectFirst_Last ==
    /\ Running("SelectFormula", "main_variables")
    /\ Top.index > Len(formula_by_main_variable(Top.formula))
    /\ UNCHANGED <<variables_name, array_by_period, debug, calls>>
    /\ SelectCall(Top, formula_by_main_variable(Top.formula)[Len(formula_by_main_variable(Top.formula))][2])
    /\ UNCHANGED <<patchVars, libVars>>

\* lines 361-365: no main variable has an array, the first formula is selected
SelectFirst ==
    /\ Running("SelectFormula", "main_variables")
    /\ Top.index > Len(formula_by_main_variable(Top.formula))
    /\ UNCHANGED <<variables_name, array_by_period, debug, calls>>
    /\ SelectCall(Top, formula_by_main_variable(Top.formula)[1][2])
    /\ UNCHANGED <<patchVars, libVars>>

\* lines 366-367
SelectReturned ==
    /\ Running("SelectFormula", "selected_returned")
    /\ UNCHANGED <<variables_name, array_by_period, used_formula, debug, calls>>
    /\ Return(ret, RemoveRequested(dicts, Top), "return")
    /\ UNCHANGED <<patchVars, libVars>>

(***************************************************************************)
(* find_item_at_date                                                       *)
(***************************************************************************)

RECURSIVE FirstIndex(_, _, _)
\* The index of the first of the items, from the k-th on, that the test
\* selects, 0 when there is none
FirstIndex(its, Test(_), k) ==
    IF k > Len(its) THEN 0
    ELSE IF Test(its[k]) THEN k
    ELSE FirstIndex(its, Test, k + 1)

ItemAt_StartOnly(item, instant_str) == StrLE(item.start, instant_str)

\* item['start'] <= instant_str <= item['stop'], on strings
ItemAt(item, instant_str) == StrLE(item.start, instant_str) /\ StrLE(instant_str, item.stop)

\* find_item_at_date(items, date, nearest_in_period): the item returned,
\* NoItem for None, or the exception raised
find_item_at_date(its, dt, nearest) ==
    LET instant_str == str(dt)
        IsAt(item) == ItemAt(item, instant_str)
        Earliest(item) == \A i \in DOMAIN its : ~StrLT(its[i].start, item.start)
        Latest(item) == \A i \in DOMAIN its : ~StrLT(item.stop, its[i].stop)
    IN IF FirstIndex(its, IsAt, 1) # 0 THEN [error |-> "", item |-> its[FirstIndex(its, IsAt, 1)]]
       ELSE IF nearest # NoPeriod /\ InstantLE(nearest[2], dt) /\ InstantLE(dt, stop_instant_of(nearest))
       THEN IF its = <<>> THEN [error |-> "ValueError", item |-> NoItem]
            ELSE IF StrLT(instant_str, its[FirstIndex(its, Earliest, 1)].start)
            THEN [error |-> "", item |-> its[FirstIndex(its, Earliest, 1)]]
            ELSE IF StrLT(its[FirstIndex(its, Latest, 1)].stop, instant_str)
            THEN [error |-> "", item |-> its[FirstIndex(its, Latest, 1)]]
            ELSE [error |-> "", item |-> NoItem]
       ELSE [error |-> "", item |-> NoItem]

NotCalled == [error |-> "none", item |-> NoItem]

\* The items in the reverse order
Backwards(its) == [i \in DOMAIN its |-> its[Len(its) + 1 - i]]

\* The periods given as nearest_in_period: none, and the first two days of the window
NearestPeriods == {NoPeriod, <<"day", WindowStart, 2>>}

FindInputs ==
    /\ find_items \in Timelines \cup {Backwards(its) : its \in Timelines}
    /\ date \in Instants
    /\ nearest_in_period \in NearestPeriods
    /\ found_item = NotCalled

\* No item is looked up in the other models
FindOff ==
    /\ find_items = <<>>
    /\ date = NoInstant
    /\ nearest_in_period = NoPeriod
    /\ found_item = NotCalled

\* found_item = find_item_at_date(find_items, date, nearest_in_period)
Find ==
    /\ date # NoInstant
    /\ found_item = NotCalled
    /\ found_item' = find_item_at_date(find_items, date, nearest_in_period)
    /\ UNCHANGED <<find_items, date, nearest_in_period>>
    /\ UNCHANGED <<patchVars, engineVars, updateVars, cloneVars, rolesVars>>

(***************************************************************************)
(* Formula objects and clone                                               *)
(***************************************************************************)

TopFormulas == {"fa", "fb", "fc", "fd"}

\* Number of simulations: the first one and its clones
MaxSimulations == 2

\* The holder of a column in a simulation
Holder(simulation, column) == [simulation |-> simulation, column |-> column]

\* A formula object and its attributes; formulas is alternative_formulas,
\* the formulas of dated_formulas or those of formula_by_main_variable, as
\* addresses; used_formula is an address, 0 for None; holder_by_variable_name
\* is 0 for None, else the simulation whose holders the mapping leads to
FormulaObject(name, holder, formulas, used, resolved) ==
    [name |-> name, holder |-> holder, formulas |-> formulas, used_formula |-> used,
     holder_by_variable_name |-> resolved]

\* The classes of the formulas a grouped formula builds, in order
SubFormulas(f) ==
    CASE FormulaClass(f) = "AlternativeFormula" -> alternative_formulas(f)
      [] FormulaClass(f) = "DatedFormula" -> [i \in DOMAIN dated_formulas(f) |-> dated_formulas(f)[i].formula]
      [] FormulaClass(f) = "SelectFormula" ->
            [i \in DOMAIN formula_by_main_variable(f) |-> formula_by_main_variable(f)[i][2]]
      [] OTHER -> <<>>

\* __init__: the formula and the formulas it groups, all built with the holder
NewFormula(objs, f, holder) ==
    LET new == Len(objs) + 1
        subs == SubFormulas(f)
    IN (objs \o << FormulaObject(f, holder, [i \in DOMAIN subs |-> new + i], 0, 0) >>)
         \o [i \in DOMAIN subs |-> FormulaObject(subs[i], holder, <<>>, 0, 0)]

\* The value of an attribute the instance does not have: the class attribute
ClassAttribute(key) == IF key = "formulas" THEN <<>> ELSE 0

keys_to_skip_None(f) == {}

\* The keys each class of formula adds to keys_to_skip
keys_to_skip(f) ==
    IF FormulaClass(f) = "SimpleFormula" THEN {"holder_by_variable_name"} ELSE {"formulas"}

\* AbstractFormula.clone: an empty clone given every attribute of the
\* instance but the skipped ones, then the holder
AbstractClone(old, holder, skipped) ==
    [key \in DOMAIN old |->
        IF key = "holder" THEN holder
        ELSE IF key \in skipped THEN ClassAttribute(key)
        ELSE old[key]]

RECURSIVE clone(_, _, _)
RECURSIVE clone_formulas(_, _, _, _, _)
\* [formula.clone(holder) for formula in formulas], from the k-th on
clone_formulas(objs, formulas, holder, k, refs) ==
    IF k > Len(formulas) THEN [objects |-> objs, refs |-> refs]
    ELSE LET cloned == clone(objs, formulas[k], holder)
         IN clone_formulas(cloned.objects, formulas, holder, k + 1, Append(refs, cloned.new))

\* self.clone(holder) of the formula at address self
clone(objs, self, holder) ==
    LET new == Len(objs) + 1
        copied == Append(objs, AbstractClone(objs[self], holder, keys_to_skip(objs[self].name)))
    IN IF FormulaClass(objs[self].name) = "SimpleFormula"
       THEN [objects |-> copied, new |-> new]
       ELSE LET cloned == clone_formulas(copied, objs[self].formulas, holder, 1, <<>>)
            IN [objects |-> [cloned.objects EXCEPT ![new].formulas = cloned.refs], new |-> new]

\* The first simulation has built the formula of one of its holders
CloneInputs ==
    /\ \E f \in TopFormulas :
          formula_objects = NewFormula(<<>>, f, Holder(1, holder_of(f)))
    /\ simulations = <<1>>

\* No formula object in the other models
CloneOff ==
    /\ formula_objects = <<>>
    /\ simulations = <<>>

\* A new simulation clones the formula of a simulation for its own holder
Clone ==
    /\ simulations # <<>>
    /\ Len(simulations) < MaxSimulations
    /\ \E s \in DOMAIN simulations :
          LET self == simulations[s]
              holder == Holder(Len(simulations) + 1, formula_objects[self].holder.column)
              cloned == clone(formula_objects, self, holder)
          IN /\ formula_objects' = cloned.objects
             /\ simulations' = Append(simulations, cloned.new)
    /\ UNCHANGED <<patchVars, engineVars, updateVars, rolesVars, findVars>>

\* The first holder_by_variable_name of a SimpleFormula, in a compute: the
\* mapping is built from the holders of the formula's simulation and kept
ResolveHolders ==
    /\ \E self \in DOMAIN formula_objects :
          /\ FormulaClass(formula_objects[self].name) = "SimpleFormula"
          /\ formula_objects[self].holder_by_variable_name = 0
          /\ formula_objects' = [formula_objects EXCEPT
                ![self].holder_by_variable_name = formula_objects[self].holder.simulation]
    /\ UNCHANGED simulations
    /\ UNCHANGED <<patchVars, engineVars, updateVars, rolesVars, findVars>>

\* self.used_formula = formula, in the compute of a grouped formula
UseFormula ==
    /\ \E self \in DOMAIN formula_objects :
          \E i \in DOMAIN formula_objects[self].formulas :
              /\ formula_objects[self].used_formula # formula_objects[self].formulas[i]
              /\ formula_objects' = [formula_objects EXCEPT
                    ![self].used_formula = formula_objects[self].formulas[i]]
    /\ UNCHANGED simulations
    /\ UNCHANGED <<patchVars, engineVars, updateVars, rolesVars, findVars>>

NextClone == Clone \/ ResolveHolders \/ UseFormula

(***************************************************************************)
(* Arrays of persons and arrays of entities                                *)
(***************************************************************************)

\* persons.count; entity.count is EntityCount
PersonsCount == 3

\* entity.roles_count
RolesCount == 2

\* split_by_roles fills at least this many roles when given none
MinRoles == 11

\* simulation.entity_by_key_singular
EntityKeys == {"persons", "group"}

\* The entity of the holder of the formula the methods are called on
FormulaEntity == "group"

Count(entity) == IF entity = "persons" THEN PersonsCount ELSE EntityCount

\* An optional argument: given is FALSE when it is None
Some(val) == [given |-> TRUE, val |-> val]

None(val) == [given |-> FALSE, val |-> val]

\* array_or_holder: a Numpy array, or a holder of an entity with its array
Ndarray(array) == [kind |-> "ndarray", entity |-> "", column |-> "", array |-> array]

HolderOf(entity, column, array) == [kind |-> "holder", entity |-> entity, column |-> column, array |-> array]

\* What a call returns: the exception raised, or a value, an array or for
\* split_by_roles the arrays by role
Raises(error) == [error |-> error, value |-> <<>>]

Returns(val) == [error |-> "", value |-> val]

NoResult == [error |-> "none", value |-> <<>>]

NoCall == [name |-> "", default |-> None(0), entity |-> "", roles |-> None(<<>>)]

\* A value stored in an array of the dtype
Cast(dtype, x) == IF dtype = "bool" THEN (IF x # 0 THEN 1 ELSE 0) ELSE x

\* range(n)
Range(n) == [i \in 1 .. n |-> i - 1]

Last(ps) == CHOOSE p \in ps : \A q \in ps : q <= p

\* persons.holder_by_name[entity.role_for_person_variable_name].array == role,
\* as the set of the persons selected
boolean_filter(rl, role) == {p \in DOMAIN rl : rl[p] = role}

\* The persons of the filter whose cell is written in the cell g of the target
Writers(idx, filter, g) == {p \in filter : idx[p] = g - 1}

ScatterAssign_Unindexed(target, idx, filter, array) ==
    [p \in DOMAIN target |-> IF p \in filter THEN array[1] ELSE target[p]]

\* target_array[boolean_filter] = array[entity_index_array[boolean_filter]]
ScatterAssign(target, idx, filter, array) ==
    [p \in DOMAIN target |-> IF p \in filter THEN array[idx[p] + 1] ELSE target[p]]

\* target_array[entity_index_array[boolean_filter]] = array[boolean_filter]:
\* when several persons write the same cell, the last one stays
GatherAssign(target, idx, filter, array) ==
    [g \in DOMAIN target |->
        IF Writers(idx, filter, g) = {} THEN target[g] ELSE array[Last(Writers(idx, filter, g))]]

\* target_array[entity_index_array[boolean_filter]] += array[boolean_filter]:
\* Numpy reads the cells, adds and writes back, so that of several persons
\* adding to the same cell only the last one counts
GatherAdd(target, idx, filter, array, dtype) ==
    [g \in DOMAIN target |->
        IF Writers(idx, filter, g) = {} THEN target[g]
        ELSE Cast(dtype, target[g] + array[Last(Writers(idx, filter, g))])]

\* The first lines of the methods that take an array of persons: the entity,
\* and the checks made on array_or_holder; "" when they pass
PersonsArrayError(aoh, entity) ==
    IF entity # "" /\ entity \notin EntityKeys THEN "AssertionError"
    ELSE IF (IF entity = "" THEN FormulaEntity ELSE entity) = "persons" THEN "AssertionError"
    ELSE IF aoh.kind = "holder" THEN (IF aoh.entity # "persons" THEN "AssertionError" ELSE "")
    ELSE IF Len(aoh.array.data) # PersonsCount THEN "AssertionError"
    ELSE ""

\* The default of the methods that take an array of persons
DefaultOf(aoh, default) ==
    IF default.given THEN default.val
    ELSE IF aoh.kind = "holder" THEN column_default(aoh.column)
    ELSE 0

RECURSIVE cast_roles(_, _, _, _, _, _)
cast_roles_FirstOnly(target, idx, rl, array, roles, k) ==
    IF k > Len(roles) THEN target
    ELSE ScatterAssign(target, idx, boolean_filter(rl, roles[k]), array)

\* for role in roles, from the k-th role on
cast_roles(target, idx, rl, array, roles, k) ==
    IF k > Len(roles) THEN target
    ELSE cast_roles(ScatterAssign(target, idx, boolean_filter(rl, roles[k]), array), idx, rl, array, roles, k + 1)

cast_from_entity_to_roles_Unchecked(idx, rl, aoh, default, entity, roles) ==
    LET array == aoh.array
        target_array == Filled(PersonsCount, Cast(array.dtype, DefaultOf(aoh, default)))
    IN Returns(Array(array.dtype,
                     cast_roles(target_array, idx, rl, [i \in 1 .. EntityCount + PersonsCount |->
                                    IF i \in DOMAIN array.data THEN array.data[i] ELSE 0],
                                IF roles.given THEN roles.val ELSE Range(RolesCount), 1)))

\* self.cast_from_entity_to_roles(array_or_holder, default, entity, roles)
cast_from_entity_to_roles(idx, rl, aoh, default, entity, roles) ==
    LET ent == IF aoh.kind = "holder" /\ entity = "" THEN aoh.entity ELSE entity
        array == aoh.array
        target_array == Filled(PersonsCount, Cast(array.dtype, DefaultOf(aoh, default)))
    IN IF aoh.kind = "holder" /\ entity # "" /\ entity \notin EntityKeys THEN Raises("AssertionError")
       ELSE IF aoh.kind = "holder" /\ entity # "" /\ entity # aoh.entity THEN Raises("AssertionError")
       ELSE IF aoh.kind = "ndarray" /\ entity \notin EntityKeys THEN Raises("AssertionError")
       ELSE IF aoh.kind = "ndarray" /\ Len(array.data) # Count(ent) THEN Raises("AssertionError")
       ELSE IF ent = "persons" THEN Raises("AssertionError")
       ELSE Returns(Array(array.dtype,
                          cast_roles(target_array, idx, rl, array.data,
                                     IF roles.given THEN roles.val ELSE Range(RolesCount), 1)))

\* self.filter_role(array_or_holder, default, entity, role)
filter_role(idx, rl, aoh, default, entity, role) ==
    LET array == aoh.array
        target_array == Filled(EntityCount, Cast(array.dtype, DefaultOf(aoh, default)))
    IN IF PersonsArrayError(aoh, entity) # "" THEN Raises(PersonsArrayError(aoh, entity))
       ELSE Returns(Array(array.dtype, GatherAssign(target_array, idx, boolean_filter(rl, role), array.data)))

\* self.split_by_roles(array_or_holder, default, entity, roles): target_array_by_role
split_by_roles(idx, rl, aoh, default, entity, roles) ==
    LET array == aoh.array
        role_list == IF roles.given THEN roles.val
                     ELSE Range(IF RolesCount > MinRoles THEN RolesCount ELSE MinRoles)
        target_array == Filled(EntityCount, Cast(array.dtype, DefaultOf(aoh, default)))
    IN IF PersonsArrayError(aoh, entity) # "" THEN Raises(PersonsArrayError(aoh, entity))
       ELSE Returns([role \in {role_list[k] : k \in DOMAIN role_list} |->
                        Array(array.dtype,
                              GatherAssign(target_array, idx, boolean_filter(rl, role), array.data))])

RECURSIVE add_roles(_, _, _, _, _, _, _)
\* for role in roles, from the k-th role on
add_roles(target, idx, rl, array, dtype, roles, k) ==
    IF k > Len(roles) THEN target
    ELSE add_roles(GatherAdd(target, idx, boolean_filter(rl, roles[k]), array, dtype),
                   idx, rl, array, dtype, roles, k + 1)

\* self.sum_by_entity(array_or_holder, entity, roles)
sum_by_entity(idx, rl, aoh, entity, roles) ==
    LET array == aoh.array
        dtype == IF array.dtype # "bool" THEN array.dtype ELSE "int16"
    IN IF PersonsArrayError(aoh, entity) # "" THEN Raises(PersonsArrayError(aoh, entity))
       ELSE Returns(Array(dtype, add_roles(Filled(EntityCount, 0), idx, rl, array.data, dtype,
                                           IF roles.given THEN roles.val ELSE Range(RolesCount), 1)))

\* self.any_by_roles(array_or_holder, entity, roles)
any_by_roles(idx, rl, aoh, entity, roles) ==
    LET array == aoh.array
    IN IF PersonsArrayError(aoh, entity) # "" THEN Raises(PersonsArrayError(aoh, entity))
       ELSE Returns(Array("bool", add_roles(Filled(EntityCount, 0), idx, rl, array.data, "bool",
                                            IF roles.given THEN roles.val ELSE Range(RolesCount), 1)))

\* The data of the arrays given: 1, 2, 3, ... or for booleans 1, 0, 1, ...
ArraysOfLength(n) ==
    { Array("float32", [i \in 1 .. n |-> i]), Array("bool", [i \in 1 .. n |-> i % 2]) }

\* Arrays of as many cells as there are entities, persons, and one more, and
\* the holders of a variable of the persons and of a variable of the entity
ArraysOrHolders ==
    {Ndarray(array) : array \in UNION {ArraysOfLength(n) : n \in {EntityCount, PersonsCount, PersonsCount + 1}}}
      \cup UNION {{HolderOf(entity, "x", array) : array \in ArraysOfLength(Count(entity))} : entity \in EntityKeys}

Defaults == {None(0), Some(5)}

EntityArguments == {"", "group"}

RolesArguments == {None(<<>>), Some(<<0>>), Some(<<1>>)}

RolesInputs ==
    /\ entity_index_array \in [1 .. PersonsCount -> 0 .. EntityCount - 1]
    /\ role_array \in [1 .. PersonsCount -> 0 .. RolesCount]
    /\ array_or_holder \in ArraysOrHolders
    /\ operation = NoCall
    /\ result = NoResult
    /\ gathered = NoResult

\* No array of persons in the other models
RolesOff ==
    /\ entity_index_array = <<>>
    /\ role_array = <<>>
    /\ array_or_holder = Ndarray(NoArray)
    /\ operation = [NoCall EXCEPT !.name = "off"]
    /\ result = NoResult
    /\ gathered = NoResult

Called(name, default, entity, roles, returned) ==
    /\ operation = NoCall
    /\ operation' = [name |-> name, default |-> default, entity |-> entity, roles |-> roles]
    /\ result' = returned
    /\ UNCHANGED <<entity_index_array, role_array, array_or_holder, gathered>>
    /\ UNCHANGED <<patchVars, engineVars, updateVars, cloneVars, findVars>>

CastFromEntityToRoles ==
    \E default \in Defaults, entity \in EntityArguments, roles \in RolesArguments :
        Called("cast_from_entity_to_roles", default, entity, roles,
               cast_from_entity_to_roles(entity_index_array, role_array, array_or_holder, default, entity, roles))

FilterRole ==
    \E default \in Defaults, entity \in EntityArguments, role \in 0 .. RolesCount - 1 :
        Called("filter_role", default, entity, Some(<<role>>),
               filter_role(entity_index_array, role_array, array_or_holder, default, entity, role))

SplitByRoles ==
    \E default \in Defaults, entity \in EntityArguments, roles \in RolesArguments :
        Called("split_by_roles", default, entity, roles,
               split_by_roles(entity_index_array, role_array, array_or_holder, default, entity, roles))

SumByEntity ==
    \E entity \in EntityArguments, roles \in RolesArguments :
        Called("sum_by_entity", None(0), entity, roles,
               sum_by_entity(entity_index_array, role_array, array_or_holder, entity, roles))

AnyByRoles ==
    \E entity \in EntityArguments, roles \in RolesArguments :
        Called("any_by_roles", None(0), entity, roles,
               any_by_roles(entity_index_array, role_array, array_or_holder, entity, roles))

\* filter_role of what the cast to one role returned, with the same default,
\* for the same role
FilterRoleOfCast ==
    /\ operation.name = "cast_from_entity_to_roles"
    /\ operation.roles.given
    /\ result.error = ""
    /\ gathered = NoResult
    /\ gathered' = filter_role(entity_index_array, role_array, Ndarray(result.value), operation.default,
                               operation.entity, operation.roles.val[1])
    /\ UNCHANGED <<entity_index_array, role_array, array_or_holder, operation, result>>
    /\ UNCHANGED <<patchVars, engineVars, updateVars, cloneVars, findVars>>

NextRoles ==
    \/ CastFromEntityToRoles
    \/ FilterRole
    \/ SplitByRoles
    \/ SumByEntity
    \/ AnyByRoles
    \/ FilterRoleOfCast

LibOff == UpdateOff /\ CloneOff /\ RolesOff /\ FindOff

\* The formulas top-level calls are made on: the formula of each holder
RequestedFormulas == {formula_of(v) : v \in Variables} \ {NoFormula}

Compute == \E f \in RequestedFormulas : \E period \in RequestPeriods(f), lazy \in BOOLEAN : Request(f, period, lazy)

Next ==
    \/ Compute
    \/ Unwind
    \/ SimpleEnter
    \/ SimpleVariable
    \/ SimpleVariableReturned
    \/ SimpleFunction
    \/ AlternativeEnter
    \/ AlternativeProbe
    \/ AlternativeReturned
    \/ AlternativeLast
    \/ AlternativeLastReturned
    \/ DatedEnter
    \/ DatedNext
    \/ DatedReturned
    \/ SelectEnter
    \/ SelectMainVariable
    \/ SelectMainVariableReturned
    \/ SelectFirst
    \/ SelectReturned

Init == PatchOff /\ InitEngine /\ LibOff

Spec == Init /\ [][Next]_vars

\* A step of the call in progress
Step == Next /\ ~Compute

\* A call in progress goes on until it ends: the interpreter runs it
SpecFair == Init /\ [][Next]_vars /\ WF_vars(Step)

InitPatch == PatchInputs /\ EngineOff /\ LibOff

InitUpdate == UpdateInputs /\ PatchOff /\ EngineOff /\ CloneOff /\ RolesOff /\ FindOff

InitClone == CloneInputs /\ PatchOff /\ EngineOff /\ UpdateOff /\ RolesOff /\ FindOff

InitRoles == RolesInputs /\ PatchOff /\ EngineOff /\ UpdateOff /\ CloneOff /\ FindOff

InitFind == FindInputs /\ PatchOff /\ EngineOff /\ UpdateOff /\ CloneOff /\ RolesOff

SpecFind == InitFind /\ [][Find]_vars

SpecRoles == InitRoles /\ [][NextRoles]_vars

SpecClone == InitClone /\ [][NextClone]_vars

SpecUpdate == InitUpdate /\ [][Update]_vars

SpecPatch == InitPatch /\ [][NextPatch]_vars

(***************************************************************************)
(* Properties of the evaluation                                            *)
(***************************************************************************)

\* How many times the function of the formula of call i was called from the
\* start of call i to the end of call j
CallsAcross(i, j) ==
    requests[j].calls_end[requests[i].formula] - requests[i].calls_start[requests[i].formula]

\* The first of two successive calls of a SimpleFormula that both returned
ReturnedTwice ==
    { i \in 1 .. Len(requests) - 1 :
        /\ requests[i].formula \in SimpleFormulas
        /\ requests[i].status = "returned"
        /\ requests[i + 1].status = "returned" }

Reentered(lazy) ==
    /\ stack # <<>>
    /\ exc = ""
    /\ Top.pc = "enter"
    /\ Top.lazy = lazy
    /\ Requested(dicts[Top.rfbp], KeyOf(Top), Top.formula)

\* A finished non-lazy call of the SimpleFormula of a, whose function takes a itself
SelfDependent(r) ==
    /\ r.formula = "fa"
    /\ ~r.lazy
    /\ r.status # "running"
    /\ variables_name["fa"] = <<"a">>

\* C2: a non-lazy compute entered while its formula is in the requested formulas
\* of its period key fails with the infinite loop error, calls no function and
\* stores no array, whatever the class of the formula; and a non-lazy call of a
\* formula whose function takes the formula's own variable fails with that error
C2_CycleFails ==
    /\ [][Reentered(FALSE) =>
            /\ exc' = "cycle"
            /\ stack' = Pop
            /\ lastExit'.how = "raise"
            /\ calls' = calls
            /\ array_by_period' = array_by_period]_vars
    /\ [](\A i \in DOMAIN requests :
            SelfDependent(requests[i]) => requests[i].status = "failed" /\ requests[i].error = "cycle")

\* C2 witness: a compute of a SelectFormula has just failed on its cycle check:
\* it had added nothing, and its formula is in the requested formulas
C2_Witness ==
    /\ exc = "cycle"
    /\ lastExit.how = "raise"
    /\ ~lastExit.added
    /\ lastExit.requested
    /\ ~lastExit.lazy
    /\ FormulaClass(lastExit.formula) = "SelectFormula"

\* C3: a lazy compute entered while its formula is in the requested formulas of
\* its period key returns holder.at_period(period) at once: it does not fail,
\* calls nothing, and leaves the requested formulas and the arrays as they are
C3_LazyCycleReturns ==
    [][Reentered(TRUE) =>
            /\ exc' = ""
            /\ stack' = Pop
            /\ ret' = at_period(holder_of(Top.formula), Top.period)
            /\ lastExit'.how = "lazy_cycle"
            /\ dicts' = dicts
            /\ calls' = calls
            /\ array_by_period' = array_by_period]_vars

\* C3 witness: a lazy compute has just returned from its cycle check, its
\* formula still in the requested formulas
C3_Witness ==
    /\ lastExit.how = "lazy_cycle"
    /\ lastExit.lazy
    /\ lastExit.requested
    /\ exc = ""
    /\ ret.holder = holder_of(lastExit.formula)

\* C4: a compute call that added its formula to the requested formulas has
\* removed it when it exits, however it exits
C4_MarkerScoped == lastExit.added => ~lastExit.requested

\* The top-level call has just ended with formula f returning in the given way
JustReturned(f, how) ==
    /\ stack = <<>>
    /\ requests # <<>>
    /\ requests[Len(requests)].formula = f
    /\ requests[Len(requests)].status = "returned"
    /\ lastExit.formula = f
    /\ lastExit.how = how

\* C12: AlternativeFormula.compute calls its alternatives lazily, in the order
\* of the list and for its own period; when an alternative returns an array the
\* call sets used_formula to it and returns its dated holder without calling
\* another alternative, otherwise it goes on with the next one
C12_AlternativePriority ==
    /\ [][(Running("AlternativeFormula", "alternatives")
             /\ Top.index <= Len(alternative_formulas(Top.formula))) =>
            /\ Len(stack') = Len(stack) + 1
            /\ stack'[Len(stack')].formula = alternative_formulas(Top.formula)[Top.index]
            /\ stack'[Len(stack')].lazy
            /\ stack'[Len(stack')].period = Top.period]_vars
    /\ [][Running("AlternativeFormula", "alternative_returned") =>
            IF HasArray(array_by_period, ret)
            THEN /\ used_formula'[Top.formula] = alternative_formulas(Top.formula)[Top.index]
                 /\ stack' = Pop
                 /\ ret' = ret
                 /\ calls' = calls
            ELSE /\ used_formula' = used_formula
                 /\ Len(stack') = Len(stack)
                 /\ stack'[Len(stack')].index = Top.index + 1]_vars

\* C12 witness: of two alternatives only the second returned an array, its
\* function having been called, and the call has returned it with used_formula set to it
C12_Witness ==
    /\ JustReturned("fb", "probed")
    /\ used_formula["fb"] = "b2"
    /\ requests[Len(requests)].array # NoArray
    /\ requests[Len(requests)].calls_end["b2"] = requests[Len(requests)].calls_start["b2"] + 1
    /\ requests[Len(requests)].calls_end["b1"] = requests[Len(requests)].calls_start["b1"]

\* C13: after a compute of an AlternativeFormula took its second alternative
\* for a period, the first one being absent, the next compute for the same
\* period ends with used_formula still the second alternative
C13_SelectionReused ==
    \A i \in 1 .. Len(requests) - 1 :
        ( /\ FormulaClass(requests[i].formula) = "AlternativeFormula"
          /\ requests[i].how = "probed"
          /\ requests[i].used_formula = alternative_formulas(requests[i].formula)[2]
          /\ requests[i + 1].status # "running" )
        => requests[i + 1].used_formula = alternative_formulas(requests[i].formula)[2]

\* No dated formula of f meets the period
Uncovered(f, period) ==
    \A i \in DOMAIN dated_formulas(f) :
        intersection(period, dated_formulas(f)[i].start_instant, dated_formulas(f)[i].stop_instant) = NoPeriod

\* C14: a compute of a DatedFormula for a period that none of its dated
\* formulas meets returns, lazy or not, the holder's entry for the period with
\* an array of entity.count values, all the column's default, and calls no function
C14_DefaultFill ==
    \A i \in DOMAIN requests :
        LET r == requests[i]
        IN ( /\ FormulaClass(r.formula) = "DatedFormula"
             /\ r.status # "running"
             /\ Uncovered(r.formula, r.period) )
           => /\ r.status = "returned"
              /\ r.result = at_period(holder_of(r.formula), r.period)
              /\ r.array = Array(column_dtype(holder_of(r.formula)),
                                 Filled(EntityCount, column_default(holder_of(r.formula))))
              /\ r.calls_end = r.calls_start

\* C14 witness: a lazy call for a year after every dated formula and a non-lazy
\* call for the same year have both returned
C14_Witness ==
    /\ Len(requests) >= 2
    /\ requests[1].formula = "fc"
    /\ Uncovered("fc", requests[1].period)
    /\ requests[1].lazy /\ ~requests[2].lazy
    /\ requests[1].status = "returned" /\ requests[2].status = "returned"
    /\ requests[2].array.data = Filled(EntityCount, 0)

\* The exception the step made the call on top raise, "" when none
RaisedBy(stack_after, exc_after, requests_after) ==
    IF Len(stack_after) # Len(stack) - 1 THEN ""
    ELSE IF stack_after = <<>> THEN requests_after[Len(requests_after)].error
    ELSE exc_after

\* A step in which the array a SimpleFormula's function returned fails the size
\* check or the NaN check
ValidationFails(stack_after, exc_after, requests_after) ==
    /\ Running("SimpleFormula", "variables")
    /\ RaisedBy(stack_after, exc_after, requests_after) \in {"size", "NaNCreationError"}

SimpleReturns(lazy, stack_after, exit_after) ==
    /\ stack # <<>>
    /\ exc = ""
    /\ FormulaClass(Top.formula) = "SimpleFormula"
    /\ Top.lazy = lazy
    /\ stack_after = Pop
    /\ exit_after.how # "raise"

\* The dated holder holds an array of entity.count cells of the column's dtype
Validated(arrays, dh) ==
    /\ HasArray(arrays, dh)
    /\ Len(ArrayOf(arrays, dh).data) = EntityCount
    /\ ArrayOf(arrays, dh).dtype = column_dtype(dh.holder)

\* C25 as stated: a non-lazy SimpleFormula.compute that returns, returns a
\* dated holder of the output period that holds an array of entity.count cells
\* of the column's dtype, whatever the function returned
C25_ResultPresent ==
    [][SimpleReturns(FALSE, stack', lastExit') =>
          /\ ret'.holder = holder_of(Top.formula)
          /\ Validated(array_by_period', ret')]_vars

\* C25: a non-lazy SimpleFormula.compute that returns without calling its
\* function returns an array already held; one that returns after calling it
\* returns the dated holder of the output period, having stored at most the
\* array the function returned; the array returned, if any, has entity.count
\* cells and the column's dtype; there is none only when the function
\* returned None and nothing had been stored for the output period
C25_ArrayValidated ==
    [][SimpleReturns(FALSE, stack', lastExit') =>
          /\ ret'.holder = holder_of(Top.formula)
          /\ calls' = calls =>
                /\ array_by_period' = array_by_period
                /\ Validated(array_by_period, ret')
          /\ calls' # calls =>
                /\ ret' = Top.dated_holder
                /\ \A v \in Variables : \A p \in DOMAIN array_by_period'[v] :
                      at_period(v, p) # ret' =>
                          /\ p \in DOMAIN array_by_period[v]
                          /\ array_by_period'[v][p] = array_by_period[v][p]
                /\ \/ Validated(array_by_period', ret')
                   \/ ~HasArray(array_by_period', ret') /\ array_by_period' = array_by_period]_vars

\* C25 witness: a non-lazy call of fa has called the function once and
\* returned an array of the column's dtype
C25_Witness ==
    /\ JustReturned("fa", "return")
    /\ ~requests[Len(requests)].lazy
    /\ requests[Len(requests)].calls_end["fa"] = requests[Len(requests)].calls_start["fa"] + 1
    /\ Validated(array_by_period, requests[Len(requests)].result)

\* A step of a SimpleFormula.compute that has just found an input variable
\* with no array
InputAbsent(lazy) ==
    /\ Running("SimpleFormula", "variable_returned")
    /\ ~HasArray(array_by_period, ret)
    /\ Top.lazy = lazy

\* What C26 says of the step that follows an absent input: a lazy compute
\* returns the dated holder of its output period, having called neither its
\* function nor another input, stored nothing, and removed itself from the
\* requested formulas of its key; a non-lazy one raises
ShortCircuit ==
    /\ InputAbsent(TRUE) =>
          /\ stack' = Pop
          /\ exc' = ""
          /\ lastExit'.how = "absent"
          /\ ret' = at_period(holder_of(Top.formula), Top.output_period)
          /\ calls' = calls
          /\ array_by_period' = array_by_period
          /\ ~Requested(dicts'[Top.rfbp], KeyOf(Top), Top.formula)
    /\ InputAbsent(FALSE) =>
          /\ RaisedBy(stack', exc', requests') = "variable_is_None"
          /\ calls' = calls
          /\ array_by_period' = array_by_period

LazyMiss ==
    /\ stack # <<>>
    /\ exc = ""
    /\ Top.lazy
    /\ ~HasArray(array_by_period, ret)
    /\ \/ Running("DatedFormula", "dated_returned")
       \/ Running("AlternativeFormula", "alternatives") /\ Top.index > Len(alternative_formulas(Top.formula))
       \/ Running("SelectFormula", "selected_returned")

\* C27: a lazy compute of a grouped formula whose candidates all returned no
\* array returns a dated holder with no array and stores nothing in a holder
C27_LazyMissAbsent ==
    [][LazyMiss =>
          /\ stack' = Pop
          /\ exc' = ""
          /\ ~HasArray(array_by_period', ret')
          /\ array_by_period' = array_by_period]_vars

\* No alternative of the AlternativeFormula on top has returned an array
NoAlternativeLeft(lazy) ==
    /\ Running("AlternativeFormula", "alternatives")
    /\ Top.index > Len(alternative_formulas(Top.formula))
    /\ Top.lazy = lazy

\* C28: when no alternative has an array, a non-lazy AlternativeFormula.compute
\* sets used_formula to its first alternative, computes it non-lazily for its own
\* period with its own requested_formulas_by_period and returns what that call
\* returns; a lazy call returns a dated holder with no array, calls nothing and
\* leaves used_formula as it is
C28_LastResort ==
    /\ [][NoAlternativeLeft(FALSE) =>
             /\ used_formula' = [used_formula EXCEPT ![Top.formula] = alternative_formulas(Top.formula)[1]]
             /\ Len(stack') = Len(stack) + 1
             /\ stack'[Len(stack')].formula = alternative_formulas(Top.formula)[1]
             /\ ~stack'[Len(stack')].lazy
             /\ stack'[Len(stack')].period = Top.period
             /\ stack'[Len(stack')].rfbp = Top.rfbp
             /\ stack'[Len(stack')].pc = "enter"
             /\ dicts' = dicts]_vars
    /\ [][Running("AlternativeFormula", "last_returned") =>
             /\ stack' = Pop
             /\ exc' = ""
             /\ ret' = ret
             /\ array_by_period' = array_by_period
             /\ used_formula' = used_formula]_vars
    /\ [][NoAlternativeLeft(TRUE) =>
             /\ stack' = Pop
             /\ exc' = ""
             /\ ~HasArray(array_by_period', ret')
             /\ used_formula' = used_formula
             /\ calls' = calls
             /\ array_by_period' = array_by_period]_vars

\* C28 witness: a lazy call of fb found no alternative with an array and left
\* used_formula unset; the non-lazy call that followed computed b1 as the last
\* resort and returned its array
C28_Witness ==
    /\ stack = <<>>
    /\ Len(requests) = 2
    /\ requests[1].formula = "fb"
    /\ requests[1].lazy /\ requests[1].how = "absent" /\ requests[1].used_formula = NoFormula
    /\ ~requests[2].lazy /\ requests[2].how = "return" /\ requests[2].status = "returned"
    /\ requests[2].used_formula = "b1"
    /\ requests[2].array # NoArray
    /\ requests[2].calls_end["b1"] > requests[2].calls_start["b1"]

\* The call on top has called compute() of formula f for its own period and
\* with its own requested_formulas_by_period
Delegates(f, lazy) ==
    /\ Len(stack') = Len(stack) + 1
    /\ stack'[Len(stack')].formula = f
    /\ stack'[Len(stack')].lazy = lazy
    /\ stack'[Len(stack')].period = Top.period
    /\ stack'[Len(stack')].rfbp = Top.rfbp
    /\ stack'[Len(stack')].pc = "enter"

\* The paired formulas of a SelectFormula
PairedFormulas(f) == {formula_by_main_variable(f)[i][2] : i \in 1 .. Len(formula_by_main_variable(f))}

\* C29: SelectFormula.compute asks for its main variables in the order of the
\* mapping, lazily and for its own period; the formula paired with the first of
\* them that has an array becomes used_formula and is computed, with the lazy
\* flag of the call, and its dated holder is returned; when no main variable has
\* an array the formula of the first entry is used. A call that returned has
\* called the function of no other paired formula
C29_SelectDispatch ==
    /\ [][(Running("SelectFormula", "main_variables")
             /\ Top.index <= Len(formula_by_main_variable(Top.formula))) =>
            LET main_variable == formula_by_main_variable(Top.formula)[Top.index][1]
            IN /\ \/ Len(stack') = Len(stack) /\ ret' = at_period(main_variable, Top.period)
                  \/ Delegates(formula_of(main_variable), TRUE)
               /\ stack'[Len(stack)].index = Top.index
               /\ used_formula' = used_formula
               /\ calls' = calls]_vars
    /\ [][Running("SelectFormula", "main_variable_returned") =>
            IF HasArray(array_by_period, ret)
            THEN /\ used_formula' = [used_formula EXCEPT ![Top.formula] =
                                        formula_by_main_variable(Top.formula)[Top.index][2]]
                 /\ Delegates(formula_by_main_variable(Top.formula)[Top.index][2], Top.lazy)
            ELSE /\ stack' = SetTop([Top EXCEPT !.pc = "main_variables", !.index = @ + 1])
                 /\ used_formula' = used_formula]_vars
    /\ [][(Running("SelectFormula", "main_variables")
             /\ Top.index > Len(formula_by_main_variable(Top.formula))) =>
            /\ used_formula' = [used_formula EXCEPT ![Top.formula] = formula_by_main_variable(Top.formula)[1][2]]
            /\ Delegates(formula_by_main_variable(Top.formula)[1][2], Top.lazy)]_vars
    /\ [][Running("SelectFormula", "selected_returned") =>
            /\ stack' = Pop
            /\ ret' = ret
            /\ used_formula' = used_formula
            /\ calls' = calls]_vars
    /\ [](\A i \in 1 .. Len(requests) :
            (FormulaClass(requests[i].formula) = "SelectFormula" /\ requests[i].status = "returned") =>
               \A f \in PairedFormulas(requests[i].formula) \ {requests[i].used_formula} :
                  requests[i].calls_end[f] = requests[i].calls_start[f])

\* C29 witness: of the main variables of fd, x has no array and y has one; the
\* call used d2, the formula paired with y, and called the function of d2 only
C29_Witness ==
    /\ JustReturned("fd", "return")
    /\ array_by_period["x"] = EmptyHolder
    /\ array_by_period["y"] # EmptyHolder
    /\ requests[Len(requests)].period = <<"year", <<2015, 1, 1>>, 1>>
    /\ requests[Len(requests)].used_formula = "d2"
    /\ requests[Len(requests)].calls_end["d2"] > requests[Len(requests)].calls_start["d2"]
    /\ requests[Len(requests)].calls_end["d1"] = requests[Len(requests)].calls_start["d1"]

\* [start_instant, stop_instant] of the entry and the period have an instant in common
Meets(dated_formula, period) ==
    /\ InstantLE(dated_formula.start_instant, stop_instant_of(period))
    /\ InstantLE(period[2], dated_formula.stop_instant)

\* The later and the earlier of two instants
Later(a, b) == IF InstantLT(a, b) THEN b ELSE a

Earlier(a, b) == IF InstantLT(a, b) THEN a ELSE b

\* C30: DatedFormula.compute calls the first entry of dated_formulas whose
\* [start_instant, stop_instant] meets the requested period, with its own lazy
\* flag and for the part of the period inside the entry; when the entry returns
\* an array it becomes used_formula and its dated holder is returned with no
\* other entry called, whatever entries the period meets after it
C30_DatedDispatch ==
    /\ [][(Running("DatedFormula", "dated_formulas") /\ Top.index <= Len(dated_formulas(Top.formula))) =>
            LET dated_formula == dated_formulas(Top.formula)[Top.index]
            IN IF Meets(dated_formula, Top.period)
               THEN /\ Len(stack') = Len(stack) + 1
                    /\ stack'[Len(stack')].formula = dated_formula.formula
                    /\ stack'[Len(stack')].lazy = Top.lazy
                    /\ stack'[Len(stack')].rfbp = Top.rfbp
                    /\ stack'[Len(stack')].pc = "enter"
                    /\ stack'[Len(stack')].period[2] = Later(Top.period[2], dated_formula.start_instant)
                    /\ stop_instant_of(stack'[Len(stack')].period)
                          = Earlier(stop_instant_of(Top.period), dated_formula.stop_instant)
                    /\ used_formula' = used_formula
               ELSE /\ Len(stack') <= Len(stack)
                    /\ calls' = calls]_vars
    /\ [](\A i \in 1 .. Len(stack) :
            (FormulaClass(stack[i].formula) = "DatedFormula" /\ stack[i].pc \in {"dated_formulas", "dated_returned"}) =>
               \A j \in 1 .. (stack[i].index - 1) : ~Meets(dated_formulas(stack[i].formula)[j], stack[i].period))
    /\ [][(Running("DatedFormula", "dated_returned") /\ HasArray(array_by_period, ret)) =>
            /\ used_formula' = [used_formula EXCEPT ![Top.formula] = dated_formulas(Top.formula)[Top.index].formula]
            /\ stack' = Pop
            /\ exc' = ""
            /\ ret' = ret
            /\ calls' = calls
            /\ array_by_period' = array_by_period]_vars

\* C30 witness: fc was asked for the years 2016 and 2017, which meet c1 and c2;
\* it called c1 for the year 2016 and returned its array, and did not call c2
C30_Witness ==
    /\ JustReturned("fc", "return")
    /\ requests[Len(requests)].period = <<"year", <<2016, 1, 1>>, 2>>
    /\ \A j \in 1 .. 2 : Meets(dated_formulas("fc")[j], requests[Len(requests)].period)
    /\ requests[Len(requests)].used_formula = "c1"
    /\ requests[Len(requests)].result = at_period("c", <<"year", <<2016, 1, 1>>, 1>>)
    /\ requests[Len(requests)].array # NoArray
    /\ requests[Len(requests)].calls_end["c1"] > requests[Len(requests)].calls_start["c1"]
    /\ requests[Len(requests)].calls_end["c2"] = requests[Len(requests)].calls_start["c2"]

\* The unit of the output period of the call on top is not the formula's period_unit
UnitMismatch == get_output_period(Top.formula, Top.period)[1] # period_unit(Top.formula)

\* The output period of the call on top does not hold the start of its period
StartOutside ==
    \/ InstantLT(Top.period[2], get_output_period(Top.formula, Top.period)[2])
    \/ InstantLT(stop_instant_of(get_output_period(Top.formula, Top.period)), Top.period[2])

\* C31: a SimpleFormula.compute whose output period has another unit than
\* period_unit, or does not hold the start instant of the requested period,
\* raises; the function is not called, the formula is not among the requested
\* formulas of its key afterwards and no holder is written
C31_OutputPeriodContract ==
    [][(Running("SimpleFormula", "enter") /\ (UnitMismatch \/ StartOutside)) =>
          /\ RaisedBy(stack', exc', requests') = (IF UnitMismatch THEN "period_unit" ELSE "output_period")
          /\ calls' = calls
          /\ array_by_period' = array_by_period
          /\ ~Requested(dicts'[Top.rfbp], KeyOf(Top), Top.formula)
          /\ ~lastExit'.added]_vars

\* C31 witness: fe, asked for a month, and fg, an input of b1 probed by fb, have
\* failed on their output period; no function was called and no holder written
C31_Witness ==
    /\ stack = <<>>
    /\ requests # <<>>
    /\ requests[Len(requests)].status = "failed"
    /\ \/ /\ requests[Len(requests)].formula = "fe"
          /\ requests[Len(requests)].error = "period_unit"
       \/ /\ requests[Len(requests)].formula = "fb"
          /\ requests[Len(requests)].error = "output_period"
          /\ variables_name["b1"] = <<"g">>
    /\ requests[Len(requests)].calls_end = requests[Len(requests)].calls_start
    /\ \A v \in Variables \ {"x", "y"} : array_by_period[v] = EmptyHolder

\* The exceptions of a contract violation or of a NaN
FatalErrors == {"not_an_array", "size", "NaNCreationError", "period_unit", "output_period"}

\* A call below the call on top is waiting for a candidate it probes lazily: an
\* alternative, or a main variable of a SelectFormula
Probing ==
    \E i \in 1 .. (Len(stack) - 1) :
        /\ stack[i].pc \in {"alternative_returned", "main_variable_returned"}
        /\ stack[i + 1].lazy

\* C32: an exception of a contract violation or of a NaN raised under a lazy
\* probe of an AlternativeFormula or of a SelectFormula leaves every call it
\* goes through, the grouped formula included: no other candidate is called, no
\* function is called, nothing is stored, used_formula is not set, and the
\* top-level call fails with that exception
C32_FatalPropagates ==
    /\ [][(stack # <<>> /\ exc = "" /\ Probing /\ RaisedBy(stack', exc', requests') \in FatalErrors) =>
             /\ stack' # <<>>
             /\ exc' \in FatalErrors]_vars
    /\ [][(stack # <<>> /\ exc # "") =>
             /\ stack' = Pop
             /\ RaisedBy(stack', exc', requests') = exc
             /\ calls' = calls
             /\ array_by_period' = array_by_period
             /\ used_formula' = used_formula]_vars
    /\ [](stack = <<>> => exc = "")

\* C32 witness: b1, probed by fb, returned an array of the wrong size; fb failed
\* with that error, b2 was not called and used_formula is not set
C32_Witness ==
    /\ stack = <<>>
    /\ Len(requests) = 1
    /\ requests[1].formula = "fb"
    /\ requests[1].status = "failed"
    /\ requests[1].error = "size"
    /\ requests[1].calls_end["b1"] = 1
    /\ requests[1].calls_end["b2"] = 0
    /\ used_formula["fb"] = NoFormula
    /\ array_by_period["b"] = EmptyHolder

C34_FreshTracking ==
    /\ [][(stack = <<>> /\ stack' # <<>>) =>
             /\ Len(stack') = 1
             /\ dicts' = <<EmptyDict>>
             /\ stack'[1].rfbp = 1]_vars
    /\ [](Len(stack) = 1 /\ Top.pc = "enter" =>
             CycleCheck(dicts[Top.rfbp], KeyOf(Top), Top.formula, Top.lazy) = "proceed")
    /\ [][(Len(stack) = 1 /\ exc = "" /\ Top.pc = "enter") =>
             /\ RaisedBy(stack', exc', requests') # "cycle"
             /\ (stack' = <<>> => lastExit'.how # "lazy_cycle")]_vars

\* C34 witness: a non-lazy call of fa failed on its absent input and left fa
\* among the requested formulas of its dict; the same call made again, lazily,
\* did not take it for a cycle and went as far as the absent input
C34_Witness ==
    /\ stack = <<>>
    /\ Len(requests) = 2
    /\ requests[1].formula = "fa"
    /\ requests[1].status = "failed" /\ requests[1].error = "variable_is_None"
    /\ requests[2].lazy /\ requests[2].status = "returned" /\ requests[2].how = "absent"
    /\ variables_name["fa"] = <<"x">>

\* The key the claim gives the call on top: the requested period, or the one
\* key of a period-invariant column
ClaimedKey == IF is_period_invariant(holder_of(Top.formula)) THEN NoPeriod ELSE Top.period

\* A call of the formula on top is in progress below it, for another period and none for its period
ReenteredForAnotherPeriod ==
    /\ \E i \in 1 .. (Len(stack) - 1) : stack[i].formula = Top.formula /\ stack[i].added
    /\ \A i \in 1 .. (Len(stack) - 1) : stack[i].formula = Top.formula => stack[i].period # Top.period

\* C35: compute() looks its formula up in, and adds it to, the set of requested
\* formulas under the requested period, or under one key for all periods when
\* the column is period-invariant.  A period-invariant formula entered
\* non-lazily for another period while in progress raises the infinite loop
\* error; a formula that varies with the period, entered for a period for which
\* it is not in progress, does not
C35_PeriodKey ==
    /\ [][(stack # <<>> /\ exc = "" /\ Top.pc = "enter") =>
             LET found == Requested(dicts[Top.rfbp], ClaimedKey, Top.formula)
             IN /\ (found /\ ~Top.lazy) => RaisedBy(stack', exc', requests') = "cycle"
                /\ (found /\ Top.lazy) => stack' = Pop /\ exc' = "" /\ lastExit'.how = "lazy_cycle"
                /\ ~found => /\ RaisedBy(stack', exc', requests') # "cycle"
                             /\ lastExit'.how = "lazy_cycle" => lastExit' = lastExit
                /\ (Len(stack') = Len(stack) /\ stack'[Len(stack')].added) =>
                      /\ Requested(dicts'[Top.rfbp], ClaimedKey, Top.formula)
                      /\ \A k \in DOMAIN dicts[Top.rfbp] \ {ClaimedKey} :
                            dicts'[Top.rfbp][k] = dicts[Top.rfbp][k]]_vars
    /\ [][(stack # <<>> /\ exc = "" /\ Top.pc = "enter" /\ ReenteredForAnotherPeriod) =>
             IF is_period_invariant(holder_of(Top.formula))
             THEN IF Top.lazy THEN lastExit'.how = "lazy_cycle" /\ stack' = Pop
                  ELSE RaisedBy(stack', exc', requests') = "cycle"
             ELSE /\ RaisedBy(stack', exc', requests') # "cycle"
                  /\ ~(stack' = Pop /\ lastExit'.how = "lazy_cycle")]_vars

\* C35 witness: the period-invariant fi, asked non-lazily for a month, asked for
\* its input i for the year and failed with the infinite loop error
C35_Witness ==
    /\ stack = <<>>
    /\ requests # <<>>
    /\ requests[Len(requests)].formula = "fi"
    /\ requests[Len(requests)].period = <<"month", <<2015, 2, 1>>, 1>>
    /\ ~requests[Len(requests)].lazy
    /\ requests[Len(requests)].status = "failed"
    /\ requests[Len(requests)].error = "cycle"
    /\ variables_name["fi"] = <<"i">>
    /\ lastExit.formula = "fi"

\* The formulas of the calls in progress that have added themselves under the
\* key to the dict d or to a dict that d was copied from
InProgress(d, key) ==
    {stack[i].formula : i \in {j \in DOMAIN stack : /\ stack[j].added
                                                    /\ stack[j].rfbp <= d
                                                    /\ KeyOf(stack[j]) = key}}

\* Every set of the dict d holds the formulas of the calls in progress
Mirrors(d) ==
    /\ \A key \in DOMAIN dicts[d] : dicts[d][key] = InProgress(d, key)
    /\ \A i \in DOMAIN stack :
          (stack[i].added /\ stack[i].rfbp <= d) => KeyOf(stack[i]) \in DOMAIN dicts[d]

\* A call that has added its formula returns
ReturnsAdded ==
    /\ stack # <<>>
    /\ exc = ""
    /\ Top.added
    /\ stack' = Pop
    /\ lastExit'.how # "raise"

\* C38: as long as no exception has been raised, each set of
\* requested_formulas_by_period, and of its copies made for the alternatives,
\* holds exactly the formulas that have a call in progress under its key; so the
\* formula a returning call removes is in its set, and when the top-level call
\* has returned every set is empty
C38_MirrorsStack ==
    /\ []((stack # <<>> /\ exc = "") => \A d \in DOMAIN dicts : Mirrors(d))
    /\ [][ReturnsAdded => Requested(dicts[Top.rfbp], KeyOf(Top), Top.formula)]_vars
    /\ []((stack = <<>> /\ requests # <<>> /\ requests[Len(requests)].status = "returned") =>
             /\ Len(dicts) = 1
             /\ \A key \in DOMAIN dicts[1] : dicts[1][key] = {})

\* C38 witness: a formula asks for a variable that has two alternatives; the
\* first alternative has added itself to its copy of the dict, found no array
\* and removed itself, and the second one is in progress: its copy holds the
\* three formulas in progress, the dict itself the first two
C38_Witness ==
    /\ exc = ""
    /\ Len(stack) = 3
    /\ Len(dicts) = 2
    /\ stack[1].added /\ stack[1].rfbp = 1
    /\ stack[2].added /\ stack[2].rfbp = 1
    /\ FormulaClass(stack[2].formula) = "AlternativeFormula" /\ stack[2].index = 2
    /\ stack[3].added /\ stack[3].rfbp = 2
    /\ \E key \in DOMAIN dicts[1] :
          /\ dicts[1][key] = {stack[1].formula, stack[2].formula}
          /\ dicts[2][key] = {stack[1].formula, stack[2].formula, stack[3].formula}
    /\ lastExit.formula = "b1" /\ lastExit.added /\ lastExit.how = "absent"

(***************************************************************************)
(* Properties of clone                                                     *)
(***************************************************************************)

\* The formula objects of a simulation: its formula and the formulas it groups
RECURSIVE FormulasOf(_, _)
FormulasOf(objs, self) ==
    {self} \cup UNION {FormulasOf(objs, objs[self].formulas[i]) : i \in DOMAIN objs[self].formulas}

\* new is what self.clone(holder) has just returned
ClonedFrom(self, new, holder) ==
    LET old == formula_objects[self]
        made == formula_objects'[new]
    IN /\ new \notin DOMAIN formula_objects
       /\ made.name = old.name
       /\ made.holder = holder
       /\ Len(made.formulas) = Len(old.formulas)
       /\ \A i \in DOMAIN made.formulas :
             /\ made.formulas[i] \notin DOMAIN formula_objects
             /\ made.formulas[i] # new
             /\ \A j \in DOMAIN made.formulas : made.formulas[j] = made.formulas[i] => j = i
             /\ formula_objects'[made.formulas[i]].name = formula_objects[old.formulas[i]].name
       /\ \A a \in FormulasOf(formula_objects', new) :
             /\ formula_objects'[a].holder = holder
             /\ formula_objects'[a].holder_by_variable_name = 0

\* C16: clone(holder2) returns a new formula object bound to holder2, whose
\* alternative, dated and selectable formulas are new objects bound to holder2,
\* none of them with a resolved holder_by_variable_name; every object that
\* existed before, the original and its formulas among them, is as it was. So
\* the formulas of two simulations are never shared, each is bound to a holder
\* of its own simulation and resolves its inputs in its own simulation
C16_CloneIndependence ==
    /\ [][Len(simulations') = Len(simulations) + 1 =>
            /\ \E s \in DOMAIN simulations :
                  ClonedFrom(simulations[s], simulations'[Len(simulations')],
                             Holder(Len(simulations'), formula_objects[simulations[s]].holder.column))
            /\ \A a \in DOMAIN formula_objects : formula_objects'[a] = formula_objects[a]]_vars
    /\ [](\A s \in DOMAIN simulations :
            /\ \A a \in FormulasOf(formula_objects, simulations[s]) :
                  /\ formula_objects[a].holder.simulation = s
                  /\ formula_objects[a].holder_by_variable_name \in {0, s}
            /\ \A t \in DOMAIN simulations :
                  t # s => FormulasOf(formula_objects, simulations[s])
                              \cap FormulasOf(formula_objects, simulations[t]) = {})

\* C16 witness: a grouped formula whose first formula had resolved its input
\* holders has been cloned, and the clone's first formula has not resolved its own
C16_Witness ==
    /\ Len(simulations) = 2
    /\ formula_objects[simulations[1]].formulas # <<>>
    /\ formula_objects[formula_objects[simulations[1]].formulas[1]].holder_by_variable_name = 1
    /\ formula_objects[simulations[2]].formulas # formula_objects[simulations[1]].formulas
    /\ formula_objects[formula_objects[simulations[2]].formulas[1]].holder_by_variable_name = 0
    /\ formula_objects[simulations[1]].holder = Holder(1, formula_objects[simulations[2]].holder.column)

\* C39: the used_formula of the formula of every simulation, the clones among
\* them, is None or one of the formulas that formula groups, bound to the
\* holder of that simulation
C39_UsedInsideClone ==
    \A s \in DOMAIN simulations :
        LET formula == formula_objects[simulations[s]]
        IN \/ formula.used_formula = 0
           \/ /\ \E i \in DOMAIN formula.formulas : formula.formulas[i] = formula.used_formula
              /\ formula_objects[formula.used_formula].holder = formula.holder

(***************************************************************************)
(* Properties of the arrays of persons and of entities                     *)
(***************************************************************************)

\* Every entity has exactly one person holding the role
OneHolderEach(role) ==
    \A g \in 0 .. EntityCount - 1 :
        Cardinality({p \in DOMAIN role_array : entity_index_array[p] = g /\ role_array[p] = role}) = 1

\* C17: when every entity has exactly one person holding the role R,
\* filter_role(cast_from_entity_to_roles(G, roles = [R], default = d), role = R,
\* default = d) returns G, whatever d; and the cast of an array of entity.count
\* cells given with its entity, or of a holder of the entity, does return
C17_RoundTrip ==
    /\ (gathered # NoResult /\ OneHolderEach(operation.roles.val[1])) =>
          gathered = Returns(array_or_holder.array)
    /\ (/\ operation.name = "cast_from_entity_to_roles"
        /\ \/ array_or_holder.kind = "holder" /\ array_or_holder.entity = "group"
           \/ /\ array_or_holder.kind = "ndarray" /\ operation.entity = "group"
              /\ Len(array_or_holder.array.data) = EntityCount) =>
          result.error = ""

\* C17 witness: an array of numbers was cast to the one person of each entity
\* holding role 1, another person getting the default 5, and filtered back
C17_Witness ==
    /\ gathered.error = ""
    /\ OneHolderEach(1)
    /\ operation.roles = Some(<<1>>)
    /\ operation.default = Some(5)
    /\ array_or_holder.kind = "ndarray"
    /\ array_or_holder.array.dtype = "float32"
    /\ \E p \in DOMAIN result.value.data : result.value.data[p] = 5

\* The number of cells the method expects of its array
ExpectedSize(name) == IF name = "cast_from_entity_to_roles" THEN EntityCount ELSE PersonsCount

\* C18: cast_from_entity_to_roles given an array or a holder's array that has
\* not entity.count cells, and filter_role, split_by_roles, sum_by_entity and
\* any_by_roles given one that has not persons.count cells, raise and return
\* nothing
C18_LengthRejected ==
    (operation.name \notin {"", "off"}
       /\ Len(array_or_holder.array.data) # ExpectedSize(operation.name)) =>
        /\ result.error = "AssertionError"
        /\ result.value = <<>>

\* C18 witness: sum_by_entity was given an array with one cell more than there
\* are persons, and raised
C18_Witness ==
    /\ operation.name = "sum_by_entity"
    /\ array_or_holder.kind = "ndarray"
    /\ Len(array_or_holder.array.data) = PersonsCount + 1
    /\ result.error = "AssertionError"

RECURSIVE SumOver(_, _)
\* The sum of the cells of the persons ps
SumOver(array, ps) ==
    IF ps = {} THEN 0
    ELSE LET p == CHOOSE q \in ps : TRUE
         IN array[p] + SumOver(array, ps \ {p})

\* The roles a call is about: those given, or every role of the entity
RolesOf(roles) == IF roles.given THEN {roles.val[k] : k \in DOMAIN roles.val} ELSE 0 .. RolesCount - 1

\* C36: sum_by_entity returns for every entity the sum of the cells of its
\* persons holding one of the roles, however many of them hold the same role;
\* booleans are summed as integers
C36_SumByEntity ==
    (operation.name = "sum_by_entity" /\ result.error = "") =>
        /\ Len(result.value.data) = EntityCount
        /\ result.value.dtype = (IF array_or_holder.array.dtype = "bool" THEN "int16"
                                 ELSE array_or_holder.array.dtype)
        /\ \A g \in 1 .. EntityCount :
              result.value.data[g] =
                 SumOver(array_or_holder.array.data,
                         {p \in 1 .. PersonsCount : /\ entity_index_array[p] = g - 1
                                                    /\ role_array[p] \in RolesOf(operation.roles)})

\* C37: cast_from_entity_to_roles returns an array of persons.count cells of
\* the dtype of the array given, in which a person holding one of the roles
\* (any role of the entity when roles is omitted) has the cell of its entity and
\* every other person the default, stored in that dtype
C37_CastToRoles ==
    (operation.name = "cast_from_entity_to_roles" /\ result.error = "") =>
        /\ Len(result.value.data) = PersonsCount
        /\ result.value.dtype = array_or_holder.array.dtype
        /\ \A p \in 1 .. PersonsCount :
              result.value.data[p] =
                 IF role_array[p] \in RolesOf(operation.roles)
                 THEN array_or_holder.array.data[entity_index_array[p] + 1]
                 ELSE Cast(array_or_holder.array.dtype,
                           IF operation.default.given THEN operation.default.val
                           ELSE IF array_or_holder.kind = "holder" THEN column_default(array_or_holder.column)
                           ELSE 0)

\* C37 witness: with roles omitted, a person of entity 1 holding a role of the
\* entity got the cell of entity 1, and a person holding no role of the entity
\* got the default 5
C37_Witness ==
    /\ operation.name = "cast_from_entity_to_roles"
    /\ result.error = ""
    /\ ~operation.roles.given
    /\ operation.default = Some(5)
    /\ array_or_holder.array.dtype = "float32"
    /\ \E p, q \in 1 .. PersonsCount :
          /\ entity_index_array[p] = 1 /\ role_array[p] < RolesCount
          /\ result.value.data[p] = array_or_holder.array.data[2]
          /\ role_array[q] = RolesCount
          /\ result.value.data[q] = 5

(***************************************************************************)
(* Properties of update_legislation                                        *)
(***************************************************************************)

RECURSIVE NodeAt(_, _, _, _)
\* The address of the node the path leads to from node, from path element k on
NodeAt(h, node, pth, k) ==
    IF k > Len(pth) THEN node
    ELSE LET obj == h[node]
             found == {i \in 1 .. Len(obj.refs) :
                          pth[k] = (IF obj.kind = "Sequence" THEN IndexName(i - 1) ELSE obj.keys[i])}
         IN IF found = {} THEN 0 ELSE NodeAt(h, obj.refs[CHOOSE i \in found : TRUE], pth, k + 1)

\* The objects a tree is made of
RECURSIVE Reachable(_, _)
Reachable(h, node) == {node} \cup UNION {Reachable(h, h[node].refs[i]) : i \in 1 .. Len(h[node].refs)}

\* C11: after update_legislation returns, every object of the input tree, its
\* mappings, sequences and timeline items, is as it was before the call; the
\* patched timeline and its items are new objects, in the returned tree only
C11_InputsUnchanged ==
    update_pc = "updated" =>
        /\ Len(heap) >= Len(heap_before)
        /\ \A a \in DOMAIN heap_before : heap[a] = heap_before[a]
        /\ (update_error = "" /\ path \in TimelinePaths) =>
              LET old == NodeAt(heap, legislation_json, path, 1)
                  new == NodeAt(heap, updated_legislation, path, 1)
              IN /\ ItemsOf(heap, new)
                       = updated_legislation_items(ItemsOf(heap_before, old), start, stop, update_value)
                 /\ Reachable(heap, new) \cap Reachable(heap, legislation_json) = {}
                 /\ Reachable(heap, new) \cap DOMAIN heap_before = {}

\* C11 witness: a timeline of the tree has been patched, and the patched
\* timeline differs from the one in the input tree
C11_Witness ==
    /\ update_pc = "updated"
    /\ update_error = ""
    /\ path \in TimelinePaths
    /\ ItemsOf(heap, NodeAt(heap, updated_legislation, path, 1))
          # ItemsOf(heap, NodeAt(heap, legislation_json, path, 1))
    /\ ItemsOf(heap, NodeAt(heap, legislation_json, path, 1)) # <<>>

\* The name a path gives to the i-th child of the object
ChildName(obj, i) == IF obj.kind = "Sequence" THEN IndexName(i - 1) ELSE obj.keys[i]

\* C24: after update_legislation(legislation_json, path, ...) returned, for
\* every node on the path, the root included, the returned tree has a new
\* container of the same kind with the same keys; its child named by the path
\* is the next new container or, at the end of the path, a new timeline equal
\* to the patched one; each of its other children is the very object the input
\* tree has there, and no object of the input tree has changed
C24_OnlyPathReplaced ==
    (update_pc = "updated" /\ update_error = "" /\ path \in TimelinePaths) =>
        /\ \A a \in DOMAIN heap_before : heap[a] = heap_before[a]
        /\ \A k \in 0 .. Len(path) - 1 :
              LET old == NodeAt(heap_before, legislation_json, SubSeq(path, 1, k), 1)
                  new == NodeAt(heap, updated_legislation, SubSeq(path, 1, k), 1)
              IN /\ new \in DOMAIN heap
                 /\ new \notin DOMAIN heap_before
                 /\ heap[new].kind = heap_before[old].kind
                 /\ heap[new].keys = heap_before[old].keys
                 /\ Len(heap[new].refs) = Len(heap_before[old].refs)
                 /\ \A i \in DOMAIN heap[new].refs :
                       IF ChildName(heap[new], i) # path[k + 1]
                       THEN heap[new].refs[i] = heap_before[old].refs[i]
                       ELSE /\ heap[new].refs[i] \notin DOMAIN heap_before
                            /\ k = Len(path) - 1 =>
                                  ItemsOf(heap, heap[new].refs[i])
                                     = updated_legislation_items(ItemsOf(heap_before, heap_before[old].refs[i]),
                                                                 start, stop, update_value)

\* C24 witness: the rate of the second bracket of q was patched and changed;
\* the returned tree has the first bracket and the parameter p of the input tree
C24_Witness ==
    /\ update_pc = "updated"
    /\ update_error = ""
    /\ path = <<"children", "q", "brackets", "1", "rate">>
    /\ ItemsOf(heap, NodeAt(heap, updated_legislation, path, 1))
          # ItemsOf(heap, NodeAt(heap, legislation_json, path, 1))
    /\ NodeAt(heap, updated_legislation, <<"children", "q", "brackets", "0">>, 1)
          = NodeAt(heap, legislation_json, <<"children", "q", "brackets", "0">>, 1)
    /\ NodeAt(heap, updated_legislation, <<"children", "p">>, 1)
          = NodeAt(heap, legislation_json, <<"children", "p">>, 1)
    /\ NodeAt(heap, updated_legislation, <<"children", "q">>, 1)
          # NodeAt(heap, legislation_json, <<"children", "q">>, 1)

(***************************************************************************)
(* Properties of the patch                                                 *)
(***************************************************************************)

\* The instants the properties are read at: the window and one day on each side
ProbeInstants == {DayAt(k) : k \in -1 .. MaxDay}

\* The item covers the instant
Covers(item, inst) ==
    InstantLE(instant(item.start), inst) /\ InstantLE(inst, instant(item.stop))

\* The values a timeline gives at an instant (none in a gap)
ValuesAt(its, inst) == {its[i].value : i \in {j \in DOMAIN its : Covers(its[j], inst)}}

InNewInterval(inst) == InstantLE(start_instant, inst) /\ InstantLE(inst, stop_instant)

\* C5: after updated_legislation_items(items, start, stop, value), every instant
\* of [start, stop] is covered by an output item, and only by items holding the
\* new value, whatever the ordered non-overlapping input timeline
C5_PatchValueCoverage ==
    patch_pc = "patched" =>
        \A inst \in ProbeInstants :
            InNewInterval(inst) => ValuesAt(new_items, inst) = {value}

\* C6: at every instant outside [start, stop] the patched timeline covers the
\* instant exactly when the input timeline did, and with the same value
C6_PatchPreservesRest ==
    patch_pc = "patched" =>
        \A inst \in ProbeInstants :
            ~InNewInterval(inst) => ValuesAt(new_items, inst) = ValuesAt(items, inst)

\* The number of output items equal to the new item
NewItemCount(its) ==
    Cardinality({i \in DOMAIN its : its[i] = NewItem(start_instant, stop_instant, value)})

\* C7: the output holds exactly one item equal to (start, stop, value)
C7_InsertedExactlyOnce ==
    patch_pc = "patched" => NewItemCount(new_items) = 1

\* C8: the output is sorted ascending by start and no two output items cover
\* a common instant
C8_PatchOutputOrdered ==
    patch_pc = "patched" =>
        /\ \A i \in 1 .. Len(new_items) - 1 : StrLE(new_items[i].start, new_items[i + 1].start)
        /\ \A i, j \in DOMAIN new_items :
              i # j => \A inst \in ProbeInstants : ~(Covers(new_items[i], inst) /\ Covers(new_items[j], inst))

\* C8 witness: a patch whose output has a left remainder, the new item and a later item
C8_Witness ==
    /\ patch_pc = "patched"
    /\ Len(new_items) >= 3
    /\ \E i \in 2 .. Len(new_items) - 1 : new_items[i] = NewItem(start_instant, stop_instant, value)

\* Index of an input item that starts strictly before and ends strictly after the new interval
Containing ==
    {i \in DOMAIN items : /\ InstantLT(instant(items[i].start), start_instant)
                          /\ InstantLT(stop_instant, instant(items[i].stop))}

\* C9: an item that starts strictly before and ends strictly after the new
\* interval is replaced by three items: [item.start, start - 1 day] with the old
\* value, [start, stop] with the new value, [stop + 1 day, item.stop] with the
\* old value; the other items stay in place
C9_ContainmentSplit ==
    patch_pc = "patched" =>
        \A i \in Containing :
            new_items = SubSeq(items, 1, i - 1)
                        \o << Item(items[i].start, str(offset(start_instant, -1, "day")), items[i].value),
                              Item(str(start_instant), str(stop_instant), value),
                              Item(str(offset(stop_instant, 1, "day")), items[i].stop, items[i].value) >>
                        \o SubSeq(items, i + 1, Len(items))

\* C9 witness: the timeline of 2010-2012 patched with the year 2011
C9_Witness ==
    /\ patch_pc = "patched"
    /\ items = YearsTimeline
    /\ value = 20
    /\ new_items = << Item(str(<<2010, 1, 1>>), str(<<2010, 12, 31>>), 10),
                      Item(str(<<2011, 1, 1>>), str(<<2011, 12, 31>>), 20),
                      Item(str(<<2012, 1, 1>>), str(<<2012, 12, 31>>), 10) >>

\* C10: patching the patched timeline again with the same interval and value
\* gives the same timeline, item for item
C10_PatchIdempotent ==
    patch_pc = "repatched" => again_items = new_items

\* C10 witness: a second patch of a timeline the first patch changed
C10_Witness ==
    /\ patch_pc = "repatched"
    /\ new_items # items
    /\ NewItemCount(new_items) = 1
    /\ Len(new_items) >= 2


(***************************************************************************)
(* Properties of the branches of updated_legislation_items                 *)
(***************************************************************************)

\* The item starts in [start, stop] and stops after stop
OverlapsRightEdge(item) ==
    /\ InstantLE(start_instant, instant(item.start))
    /\ InstantLE(instant(item.start), stop_instant)
    /\ InstantLT(stop_instant, instant(item.stop))

\* C20: for every input item that starts in [start, stop] and stops after
\* stop, the output holds the new item and the rest of the item, from the day
\* after stop to the item's stop with the item's value
C20_RightOverlap ==
    patch_pc = "patched" =>
        \A i \in DOMAIN items :
            OverlapsRightEdge(items[i]) =>
                /\ NewItemCount(new_items) >= 1
                /\ \E j \in DOMAIN new_items :
                      new_items[j] = Item(str(offset(stop_instant, 1, "day")), items[i].stop, items[i].value)

\* The item lies inside [start, stop] and is not the interval itself
FullyInside(item) ==
    /\ InstantLE(start_instant, instant(item.start))
    /\ InstantLE(instant(item.stop), stop_instant)
    /\ ~(instant(item.start) = start_instant /\ instant(item.stop) = stop_instant)

\* C21: an input item lying inside [start, stop], the exact match apart,
\* leaves no item of its own in the output: the only output item that can end
\* where it ended is the new item
C21_ContainedDropped ==
    patch_pc = "patched" =>
        \A i \in DOMAIN items :
            FullyInside(items[i]) =>
                \A j \in DOMAIN new_items :
                    new_items[j].stop = items[i].stop =>
                        new_items[j] = NewItem(start_instant, stop_instant, value)

\* The item starts before start and stops in [start, stop]
OverlapsLeftEdge(item) ==
    /\ InstantLT(instant(item.start), start_instant)
    /\ InstantLE(start_instant, instant(item.stop))
    /\ InstantLE(instant(item.stop), stop_instant)

\* C22: for an input item that starts before start and stops in [start, stop],
\* the output holds the item cut to [item.start, start - 1 day] with its value,
\* and the new item, once, whatever the other items of the timeline
C22_LeftOverlap ==
    patch_pc = "patched" =>
        \A i \in DOMAIN items :
            OverlapsLeftEdge(items[i]) =>
                /\ \E j \in DOMAIN new_items :
                      new_items[j] = Item(items[i].start, str(offset(start_instant, -1, "day")), items[i].value)
                /\ NewItemCount(new_items) = 1

\* C22 witness: the first item overlaps the left edge, stopping at the last
\* day of a year with the new interval starting the day before, and a second
\* item inside the interval was processed after it
C22_Witness ==
    /\ patch_pc = "patched"
    /\ Len(items) = 2
    /\ OverlapsLeftEdge(items[1])
    /\ instant(items[1].stop) = <<2010, 12, 31>>
    /\ start_instant = <<2010, 12, 31>>
    /\ FullyInside(items[2])
    /\ NewItemCount(new_items) = 1

\* C23: every output item starts no later than it stops
C23_WellFormed ==
    patch_pc = "patched" =>
        \A j \in DOMAIN new_items : InstantLE(instant(new_items[j].start), instant(new_items[j].stop))

(***************************************************************************)
(* Properties of find_item_at_date                                         *)
(***************************************************************************)

\* C19: find_item_at_date(items, date) given no nearest_in_period never
\* raises; when an item's interval contains the instant it returns an item of
\* the list whose interval contains it, and it returns None when the instant
\* is in a gap, before every item or after every item
C19_Lookup ==
    (found_item # NotCalled /\ nearest_in_period = NoPeriod) =>
        /\ found_item.error = ""
        /\ IF \E i \in DOMAIN find_items : Covers(find_items[i], date)
           THEN /\ \E i \in DOMAIN find_items : found_item.item = find_items[i]
                /\ Covers(found_item.item, date)
           ELSE found_item.item = NoItem

\* C19 witness: the instant was looked up in two items, and lies between them,
\* in another month and another year than the first
C19_Witness ==
    /\ found_item = [error |-> "", item |-> NoItem]
    /\ nearest_in_period = NoPeriod
    /\ Len(find_items) = 2
    /\ InstantLT(instant(find_items[1].stop), date)
    /\ InstantLT(date, instant(find_items[2].start))
    /\ instant(find_items[1].stop)[1] < date[1]

============================================================================
